---- MODULE Spec2Model ----
(***************************************************************************)
(* A model of the rlox tree-walking interpreter: the environment chain     *)
(* (environment.rs), the value and callable model (value.rs), the two      *)
(* evaluators (visitor.rs), the lexer (lexer.rs, token.rs), the parser     *)
(* (parser.rs) and the driver loop (interpreter.rs).                       *)
(*                                                                         *)
(* Rc<RefCell<Environment>> handles are indices into the sequence `heap`;  *)
(* handle 0 stands for None.  Numbers are modelled by integers.            *)
(***************************************************************************)
EXTENDS Integers, Sequences, FiniteSets, TLC

VARIABLES
    heap,       \* every Environment allocated so far, indexed by handle
    pending,    \* statements of the running interpret pass not yet evaluated
    out,        \* what the native functions wrote to stdout, in order
    diags,      \* runtime diagnostics printed by the driver, one list per statement
    trace,      \* evaluation events of the running pass, in order
    status,     \* "ready", or "panicked" once the process has aborted
    passes,     \* number of interpret passes started
    prog,       \* name of the program of the running (or last) pass
    lastOp,     \* the last operation applied directly and what it was applied to
    source,     \* the source text handed to the lexer, as words; in the REPL
                \* the characters of its `input` string
    read_buffer,\* the REPL's read_buffer string, as characters
    entered     \* ghost: the lines read by the REPL, grouped by submission

vars == <<heap, pending, out, diags, trace, status, passes, prog, lastOp, source,
          read_buffer, entered>>

(***************************************************************************)
(* Bounds                                                                  *)
(***************************************************************************)
MaxScopes == 2      \* scopes allocated in EnvSpec
MaxPasses == 2      \* interpret passes of one interpreter instance
MaxFuel == 12       \* calls and loop iterations evaluated within one statement

(***************************************************************************)
(* Values (value.rs, enum Value)                                           *)
(***************************************************************************)
Number(n) == [t |-> "Number", n |-> n]
String(s) == [t |-> "String", s |-> s]
Boolean(b) == [t |-> "Boolean", b |-> b]
Nil == [t |-> "Nil"]
NativeFunction(arity, name) ==
    [t |-> "Callable", kind |-> "NativeFunction", arity |-> arity, fn |-> name]
Function(env, params, arity, stmt) ==
    [t |-> "Callable", kind |-> "Function", env |-> env, params |-> params,
     arity |-> arity, stmt |-> stmt]

None == <<>>
Some(v) == <<v>>

is_truthy(v) ==
    CASE v.t = "Nil" -> FALSE
      [] v.t = "Boolean" -> v.b
      [] OTHER -> TRUE

arity(callable) == callable.arity

(***************************************************************************)
(* Environment (environment.rs)                                            *)
(***************************************************************************)
EmptyScope == <<>>

Environment_new(h) == Append(h, [m_scope |-> EmptyScope, m_parent |-> 0])

new_scope(h, parent) == Append(h, [m_scope |-> EmptyScope, m_parent |-> parent])

\* the handles of the chain of e, innermost first
RECURSIVE Chain(_, _)
Chain(h, e) == IF e = 0 THEN <<>> ELSE <<e>> \o Chain(h, h[e].m_parent)

\* assign as it would be if a name bound nowhere in the chain were created
\* in the innermost scope
assign_or_create(h, e, name, value) ==
    LET chain == Chain(h, e)
        holders == {i \in 1..Len(chain) : name \in DOMAIN h[chain[i]].m_scope}
        nearest == chain[CHOOSE i \in holders : \A j \in holders : i <= j]
    IN IF holders = {}
       THEN [ok |-> TRUE, heap |-> [h EXCEPT ![e].m_scope = (name :> value) @@ @]]
       ELSE [ok |-> TRUE, heap |-> [h EXCEPT ![nearest].m_scope[name] = value]]

RECURSIVE assign(_, _, _, _)
assign(h, e, name, value) ==
    IF name \in DOMAIN h[e].m_scope
    THEN [ok |-> TRUE, heap |-> [h EXCEPT ![e].m_scope[name] = value]]
    ELSE IF h[e].m_parent # 0
         THEN assign(h, h[e].m_parent, name, value)
         ELSE [ok |-> FALSE, heap |-> h]

RECURSIVE get(_, _, _)
get(h, e, name) ==
    IF name \in DOMAIN h[e].m_scope
    THEN Some(h[e].m_scope[name])
    ELSE IF h[e].m_parent # 0
         THEN get(h, h[e].m_parent, name)
         ELSE None

\* define as it would be if it updated a binding of an enclosing scope
\* instead of shadowing it
define_nearest(h, e, name, value) ==
    IF assign(h, e, name, value).ok
    THEN assign(h, e, name, value).heap
    ELSE [h EXCEPT ![e].m_scope = (name :> value) @@ @]

define(h, e, name, value) ==
    [h EXCEPT ![e].m_scope = (name :> value) @@ @]

(***************************************************************************)
(* Value equality (value.rs).  Integers stand for f64, so the absolute     *)
(* tolerance 0.0000000001 > |a - b| holds exactly when a = b.              *)
(***************************************************************************)
is_equal(a, b) ==
    CASE a.t = "Nil" /\ b.t = "Nil" -> TRUE
      [] a.t = "Number" /\ b.t = "Number" ->
            (IF a.n >= b.n THEN a.n - b.n ELSE b.n - a.n) = 0
      [] a.t = "String" /\ b.t = "String" -> a.s = b.s
      [] a.t = "Boolean" /\ b.t = "Boolean" -> a.b = b.b
      [] a.t = "Callable" /\ b.t = "Callable" -> FALSE
      [] OTHER -> FALSE

is_not_equal(a, b) == ~is_equal(a, b)

(***************************************************************************)
(* The world an evaluation runs in and changes: the environments, stdout,  *)
(* the event trace, the remaining fuel, the call depth and `halt`, which   *)
(* is "" while evaluation runs, "panic" after a Rust panic, "fuel" when    *)
(* the bound MaxFuel is used up and "unmodelled" for arithmetic that       *)
(* integers cannot represent.                                              *)
(***************************************************************************)
World(h) == [heap |-> h, out |-> <<>>, trace |-> <<>>, fuel |-> MaxFuel,
             depth |-> 0, caller |-> 0, halt |-> ""]

Emit(w, event) == [w EXCEPT !.trace = Append(@, event)]

Halt(w, why) == [w EXCEPT !.halt = why]

\* Vec::pop
Pop(stack) ==
    IF stack = <<>>
    THEN [top |-> None, rest |-> <<>>]
    ELSE [top |-> Some(stack[Len(stack)]), rest |-> SubSeq(stack, 1, Len(stack) - 1)]

\* one write of print (nl = FALSE) or println (nl = TRUE): the value whose
\* Display form is written
Written(v, nl) == [text |-> v, nl |-> nl]

\* Display of an identifier token: its lexeme
TokenDisplay(token) == token.lexeme

(***************************************************************************)
(* Tokens and AST constructors (token.rs, ast.rs)                          *)
(***************************************************************************)
Tok(type) == [type |-> type]
Identifier(lexeme) == [type |-> "Identifier", lexeme |-> lexeme]
NumberTok(n) == [type |-> "Number", n |-> n]
StringTok(s) == [type |-> "String", s |-> s]

new_binary(l, token, r) == [k |-> "Binary", m_left |-> l, m_token |-> token, m_right |-> r]
new_grouping(e) == [k |-> "Grouping", m_expression |-> e]
new_literal(token) == [k |-> "Literal", m_token |-> token]
new_unary(token, e) == [k |-> "Unary", m_token |-> token, m_expression |-> e]
new_variable(token) == [k |-> "Variable", m_token |-> token]
new_assign(token, e) == [k |-> "Assign", m_token |-> token, m_value |-> e]
new_logical(l, token, r) == [k |-> "Logical", m_left |-> l, m_token |-> token, m_right |-> r]
new_call(callee, paren, args) ==
    [k |-> "Call", m_callee |-> callee, m_paren |-> paren, m_arguments |-> args]

new_block(stmts) == [k |-> "Block", m_statements |-> stmts]
new_expression(e) == [k |-> "Expression", m_expression |-> e]
new_var(name, init) == [k |-> "Var", m_name |-> name, m_initializer |-> init]
new_while(cond, body) == [k |-> "While", m_condition |-> cond, m_body |-> body]
new_if(cond, then, else) ==
    [k |-> "If", m_condition |-> cond, m_then_branch |-> then, m_else_branch |-> else]
new_function(name, params, body) ==
    [k |-> "Function", m_name |-> name, m_params |-> params, m_body |-> body]
new_return(keyword, value) == [k |-> "Return", m_keyword |-> keyword, m_value |-> value]

(***************************************************************************)
(* ExprEvaluator (visitor.rs)                                              *)
(***************************************************************************)
ExprEvaluator_new(env, w) ==
    [m_env |-> env, m_result |-> <<>>, m_errors |-> <<>>, w |-> w]

ExprEvaluator_get_result(x) ==
    IF x.m_errors = <<>>
    THEN [ok |-> TRUE,
          value |-> IF x.m_result = <<>> THEN Nil ELSE x.m_result[Len(x.m_result)]]
    ELSE [ok |-> FALSE, errors |-> x.m_errors]

PushResult(x, v) == [x EXCEPT !.m_result = Append(@, v)]
\* a message is the sequence of its lines
PushError(x, msg) == [x EXCEPT !.m_errors = Append(@, <<msg>>)]

Halted(x) == x.w.halt # ""

\* the arms of visit_binary for two Number operands; f64 division is
\* modelled where the quotient is an integer
NumberBinary(type, left, right) ==
    CASE type = "Minus" -> Some(Number(left - right))
      [] type = "Plus" -> Some(Number(left + right))
      [] type = "Slash" ->
            IF right > 0 /\ left % right = 0
            THEN Some(Number(left \div right))
            ELSE Some([t |-> "Unmodelled"])
      [] type = "Star" -> Some(Number(left * right))
      [] type = "Greater" -> Some(Boolean(left > right))
      [] type = "GreaterEqual" -> Some(Boolean(left >= right))
      [] type = "Less" -> Some(Boolean(left < right))
      [] type = "LessEqual" -> Some(Boolean(left <= right))
      [] type = "BangEqual" -> Some(Boolean(left # right))
      [] type = "EqualEqual" -> Some(Boolean(left = right))
      [] OTHER -> None

\* the arms of visit_binary for two String operands; the lexicographic
\* comparisons are not modelled
StringBinary(type, left, right) ==
    CASE type = "Plus" -> Some(String(left \o right))
      [] type \in {"Greater", "GreaterEqual", "Less", "LessEqual"} ->
            Some([t |-> "Unmodelled"])
      [] type = "BangEqual" -> Some(Boolean(left # right))
      [] type = "EqualEqual" -> Some(Boolean(left = right))
      [] OTHER -> None

\* the native functions registered by Interpreter::new, by name
ClockNow == Number(1700000000)
StdinLine == String("line")

NativeCall(fn, args, w) ==
    LET w1 == Emit(w, [ev |-> "native", fn |-> fn, args |-> args, depth |-> w.depth])
    IN CASE fn = "clock" -> [value |-> ClockNow, w |-> w1]
         [] fn = "read_line" -> [value |-> StdinLine, w |-> w1]
         [] fn = "test0" ->
                [value |-> Nil,
                 w |-> [w1 EXCEPT !.out = Append(@,
                          Written(String("testing123 from native print function"), TRUE))]]
         [] args = <<>> -> [value |-> Nil, w |-> Halt(w1, "panic")]
         [] fn \in {"sleep_secs", "sleep_millis"} ->
                IF args[1].t = "Number"
                THEN [value |-> Nil, w |-> w1]
                ELSE [value |-> Nil, w |-> Halt(w1, "panic")]
         [] fn = "print" ->
                [value |-> Nil, w |-> [w1 EXCEPT !.out = Append(@, Written(args[1], FALSE))]]
         [] fn = "println" ->
                [value |-> Nil, w |-> [w1 EXCEPT !.out = Append(@, Written(args[1], TRUE))]]
         [] fn = "dbg" ->
                [value |-> Nil, w |-> [w1 EXCEPT !.out = Append(@, Written(args[1], TRUE))]]
         [] OTHER -> [value |-> Nil, w |-> Halt(w1, "panic")]

(***************************************************************************)
(* StmtEvaluator (visitor.rs): m_errors is the list of signals, each an    *)
(* Error(message) or a Return(value) (ErrorValue, used by value.rs).       *)
(***************************************************************************)
Error(msg) == [sig |-> "Error", msg |-> msg]
Return(value) == [sig |-> "Return", value |-> value]

StmtEvaluator_new(env, w) == [m_env |-> env, m_errors |-> <<>>, w |-> w]

StmtEvaluator_get_result(s) ==
    IF s.m_errors = <<>>
    THEN [ok |-> TRUE]
    ELSE [ok |-> FALSE, errors |-> s.m_errors]

\* err.join("\n") of a list of messages: one message
RECURSIVE join(_)
join(err) ==
    IF err = <<>> THEN <<>> ELSE err[1] \o join(Tail(err))

\* the messages of a list of Error signals
RECURSIVE Messages(_)
Messages(sigs) ==
    IF sigs = <<>> THEN <<>> ELSE <<sigs[1].msg>> \o Messages(Tail(sigs))

HasReturn(sigs) == \E i \in 1..Len(sigs) : sigs[i].sig = "Return"

\* what a statement visitor adds to its own signals for the signals `err` of
\* a nested statement: the errors joined into one, a return signal as it is
propagate(err) ==
    IF HasReturn(err) THEN err ELSE <<Error(join(Messages(err)))>>

\* allocate a scope (Environment::new_scope) and record who created it
Alloc(w, parent, by) ==
    Emit([w EXCEPT !.heap = new_scope(@, parent)],
         [ev |-> "scope", handle |-> Len(w.heap) + 1, parent |-> parent,
          by |-> by, depth |-> w.depth])

RECURSIVE Expr_accept(_, _), Stmt_accept(_, _), call(_, _, _)

\* both operands are evaluated (x2 is the visitor after them) before the
\* errors are looked at
visit_binary(left, token, right, x) ==
    LET operate(x2) ==
          LET r == Pop(x2.m_result)
              l == Pop(r.rest)
              x3 == [x2 EXCEPT !.m_result = l.rest]
          IN IF Halted(x2) \/ x2.m_errors # <<>> THEN x2
             ELSE IF r.top = None \/ l.top = None
             THEN PushError(x3, "Invalid binary expression")
             ELSE LET rv == r.top[1]
                      lv == l.top[1]
                      res == IF rv.t = "Number"
                             THEN NumberBinary(token.type, lv.n, rv.n)
                             ELSE StringBinary(token.type, lv.s, rv.s)
                  IN IF (rv.t = "Number" /\ lv.t = "Number")
                        \/ (rv.t = "String" /\ lv.t = "String")
                     THEN IF res = None
                          THEN PushResult(PushError(x3, "Invalid binary operator"), Nil)
                          ELSE IF res[1].t = "Unmodelled"
                          THEN [x3 EXCEPT !.w = Halt(@, "unmodelled")]
                          ELSE PushResult(x3, res[1])
                     ELSE PushError(x3, "Invalid binary expression")
    IN operate(Expr_accept(right, Expr_accept(left, x)))

visit_grouping(expression, x) == Expr_accept(expression, x)

visit_literal(token, x) ==
    CASE token.type = "Number" -> PushResult(x, Number(token.n))
      [] token.type = "String" -> PushResult(x, String(token.s))
      [] token.type = "True" -> PushResult(x, Boolean(TRUE))
      [] token.type = "False" -> PushResult(x, Boolean(FALSE))
      [] token.type = "Nil" -> PushResult(x, Nil)
      [] OTHER -> PushResult(PushError(x, "Invalid literal expression"), Nil)

\* a `!` that would be true for the Number 0 only
bang_number_zero(number) == is_equal(Number(number), Number(0))

\* the Bang arm of visit_unary for a Number operand
bang_number(number) == ~is_equal(Number(number), Number(0))

visit_unary(token, expression, x) ==
    LET operate(x1) ==
          LET p == Pop(x1.m_result)
              x2 == [x1 EXCEPT !.m_result = p.rest]
          IN IF Halted(x1) \/ x1.m_errors # <<>> THEN x1
             ELSE IF p.top = None THEN PushError(x2, "Invalid unary expression")
             ELSE LET v == p.top[1]
                  IN CASE v.t = "Number" ->
                            (CASE token.type = "Minus" -> PushResult(x2, Number(0 - v.n))
                               [] token.type = "Bang" ->
                                     PushResult(x2, Boolean(bang_number(v.n)))
                               [] OTHER ->
                                     PushResult(PushError(x2, "Invalid unary operator"), Nil))
                       [] v.t = "Boolean" ->
                            (CASE token.type = "Bang" -> PushResult(x2, Boolean(~v.b))
                               [] OTHER ->
                                     PushResult(PushError(x2, "Invalid unary operator"), Nil))
                       [] OTHER -> PushError(x2, "Invalid unary expression")
    IN operate(Expr_accept(expression, x))

visit_variable(token, x) ==
    IF token.type = "Identifier"
    THEN CASE token.lexeme = "true" -> PushResult(x, Boolean(TRUE))
           [] token.lexeme = "false" -> PushResult(x, Boolean(FALSE))
           [] token.lexeme = "nil" -> PushResult(x, Nil)
           [] OTHER ->
                LET found == get(x.w.heap, x.m_env, token.lexeme)
                IN IF found # None
                   THEN PushResult(x, found[1])
                   ELSE PushResult(PushError(x, "Undefined variable"), Nil)
    ELSE PushResult(PushError(x, "Invalid variable expression"), Nil)

visit_assign(token, expression, x) ==
    LET store(x1) ==
          LET p == Pop(x1.m_result)
              x2 == [x1 EXCEPT !.m_result = p.rest]
          IN IF Halted(x1) \/ x1.m_errors # <<>> THEN x1
             ELSE IF p.top = None THEN PushError(x2, "Invalid assign expression")
             ELSE IF token.type = "Identifier"
             THEN LET a == assign(x2.w.heap, x2.m_env, token.lexeme, p.top[1])
                      x3 == [x2 EXCEPT !.w.heap = a.heap]
                  IN PushResult(IF a.ok THEN x3 ELSE PushError(x3, "Undefined variable"),
                                p.top[1])
             ELSE PushError(x2, "Invalid assign expression")
    IN store(Expr_accept(expression, x))

\* a logical operator that would never return early
decided_never(token, left) == FALSE

\* the two early returns of visit_logical: `or` with a true left operand
\* yields true, `and` with a false left operand yields false
decided_by_left(token, left) ==
    (token.type = "Or" /\ left) \/ (token.type = "And" /\ ~left)

visit_logical(left, token, right, x) ==
    LET after_right(x3) ==
          LET q == Pop(x3.m_result)
              x4 == [x3 EXCEPT !.m_result = q.rest]
          IN IF Halted(x3) \/ x3.m_errors # <<>> THEN x3
             ELSE IF q.top = None \/ q.top[1].t # "Boolean"
             THEN PushError(x4, "Invalid logical expression")
             ELSE IF token.type \in {"Or", "And"} THEN PushResult(x4, Boolean(q.top[1].b))
             ELSE x4
        after_left(x1) ==
          LET p == Pop(x1.m_result)
              x2 == [x1 EXCEPT !.m_result = p.rest]
          IN IF Halted(x1) \/ x1.m_errors # <<>> THEN x1
             ELSE IF p.top = None \/ p.top[1].t # "Boolean"
             THEN PushError(x2, "Invalid logical expression")
             ELSE IF decided_by_left(token, p.top[1].b)
             THEN PushResult(x2, Boolean(p.top[1].b))
             ELSE after_right(Expr_accept(right, x2))
    IN after_left(Expr_accept(left, x))

\* a loop over the arguments that would run from the last to the first
RECURSIVE accept_arguments_rev(_, _, _)
accept_arguments_rev(arguments, i, x) ==
    IF i > Len(arguments) THEN x
    ELSE LET rest(x1) == IF Halted(x1) \/ x1.m_errors # <<>> THEN x1
                         ELSE accept_arguments_rev(arguments, i + 1, x1)
         IN rest(Expr_accept(arguments[Len(arguments) - i + 1], x))

\* the loop of visit_call over the arguments: it leaves at the first error
RECURSIVE accept_arguments(_, _, _)
accept_arguments(arguments, i, x) ==
    IF i > Len(arguments) THEN x
    ELSE LET rest(x1) == IF Halted(x1) \/ x1.m_errors # <<>> THEN x1
                         ELSE accept_arguments(arguments, i + 1, x1)
         IN rest(Expr_accept(arguments[i], x))

\* what visit_call does with the Result of Callable::call: the value is
\* pushed, the diagnostics join the caller's
push_call_result(x, r) ==
    IF r.ok THEN PushResult(x, r.value)
    ELSE [x EXCEPT !.m_errors = @ \o r.errors]

\* a call that would not check the arity
arity_unchecked(callable, arguments) == TRUE

\* the arity check of visit_call
arity_matches(callable, arguments) == arity(callable) = Len(arguments)

visit_call(callee, paren, arguments, x) ==
    LET n == Len(arguments)
        invoke(x4, c) == push_call_result([x4 EXCEPT !.w = c.w], c.res)
        after_arguments(x3, callable) ==
          LET args == SubSeq(x3.m_result, Len(x3.m_result) - n + 1, Len(x3.m_result))
              x4 == [x3 EXCEPT !.m_result = SubSeq(@, 1, Len(@) - n)]
          IN IF Halted(x3) \/ x3.m_errors # <<>> THEN x3
             ELSE IF Len(x3.m_result) < n THEN [x3 EXCEPT !.w = Halt(@, "panic")]
             ELSE IF callable.t = "Callable"
             THEN IF ~arity_matches(callable, args)
                  THEN PushError(x4, "Invalid call expression")
                  ELSE invoke(x4, call(callable, args, [x4.w EXCEPT !.caller = x4.m_env]))
             ELSE PushError(x4, "Invalid call expression")
        after_callee(x1) ==
          LET p == Pop(x1.m_result)
              x2 == [x1 EXCEPT !.m_result = p.rest]
          IN IF Halted(x1) \/ x1.m_errors # <<>> THEN x1
             ELSE IF p.top = None THEN PushError(x2, "Invalid call expression")
             ELSE after_arguments(accept_arguments(arguments, 1, x2), p.top[1])
    IN after_callee(Expr_accept(callee, x))

Expr_accept(expr, x) ==
    IF Halted(x) THEN x
    ELSE CASE expr.k = "Binary" -> visit_binary(expr.m_left, expr.m_token, expr.m_right, x)
           [] expr.k = "Grouping" -> visit_grouping(expr.m_expression, x)
           [] expr.k = "Literal" -> visit_literal(expr.m_token, x)
           [] expr.k = "Unary" -> visit_unary(expr.m_token, expr.m_expression, x)
           [] expr.k = "Variable" -> visit_variable(expr.m_token, x)
           [] expr.k = "Assign" -> visit_assign(expr.m_token, expr.m_value, x)
           [] expr.k = "Logical" -> visit_logical(expr.m_left, expr.m_token, expr.m_right, x)
           [] expr.k = "Call" -> visit_call(expr.m_callee, expr.m_paren, expr.m_arguments, x)

(***************************************************************************)
(* Callable::call (value.rs)                                               *)
(***************************************************************************)
\* a call that would run in a child of the calling environment
call_parent_dynamic(callable, w) == w.caller

\* the parent of the scope a call of a user callable runs in: the captured
\* environment (never w.caller, the environment of the calling expression)
call_parent(callable, w) == callable.env

\* the loop over params.iter().zip(arguments.iter())
RECURSIVE bind_params(_, _, _, _, _)
bind_params(h, inner_scope, params, arguments, i) ==
    IF i > Len(params) \/ i > Len(arguments) THEN h
    ELSE bind_params(define(h, inner_scope, TokenDisplay(params[i]), arguments[i]),
                     inner_scope, params, arguments, i + 1)

\* what the calling scope and the captured scope see under the parameter names
ParamsSeen(h, callable, caller) ==
    [i \in 1..Len(callable.params) |->
        <<get(h, caller, TokenDisplay(callable.params[i])),
          get(h, callable.env, TokenDisplay(callable.params[i]))>>]

\* the match on visitor.get_result() that ends Callable::call
call_result(result) ==
    IF result.ok THEN [ok |-> TRUE, value |-> Nil, panic |-> FALSE]
    ELSE IF result.errors[Len(result.errors)].sig = "Return"
    THEN [ok |-> TRUE, value |-> result.errors[Len(result.errors)].value, panic |-> FALSE]
    ELSE IF HasReturn(result.errors)
    THEN [ok |-> FALSE, errors |-> <<>>, panic |-> TRUE]
    ELSE [ok |-> FALSE, errors |-> Messages(result.errors), panic |-> FALSE]

call(callable, arguments, w) ==
    IF callable.kind = "NativeFunction"
    THEN LET r == NativeCall(callable.fn, arguments, w)
         IN [res |-> [ok |-> TRUE, value |-> r.value], w |-> r.w]
    ELSE IF w.fuel = 0
    THEN [res |-> [ok |-> TRUE, value |-> Nil], w |-> Halt(w, "fuel")]
    ELSE LET inner_scope == Len(w.heap) + 1
             w1 == Alloc([w EXCEPT !.fuel = @ - 1], call_parent(callable, w), "call")
             w2 == Emit([w1 EXCEPT !.heap = bind_params(@, inner_scope, callable.params,
                                                        arguments, 1),
                                   !.depth = @ + 1],
                        [ev |-> "call", closure |-> callable.env, caller |-> w.caller,
                         inner |-> inner_scope, params |-> callable.params,
                         nargs |-> Len(arguments), depth |-> w.depth + 1,
                         sees |-> ParamsSeen(w.heap, callable, w.caller)])
             finish(visitor) ==
               LET r == call_result(StmtEvaluator_get_result(visitor))
                   w3 == Emit([visitor.w EXCEPT !.depth = @ - 1],
                              [ev |-> "exit", depth |-> w.depth + 1, res |-> r,
                               inner |-> inner_scope, signals |-> visitor.m_errors,
                               sees |-> ParamsSeen(visitor.w.heap, callable, w.caller)])
               IN IF Halted(visitor)
                  THEN [res |-> [ok |-> TRUE, value |-> Nil], w |-> visitor.w]
                  ELSE IF r.panic
                  THEN [res |-> [ok |-> TRUE, value |-> Nil], w |-> Halt(w3, "panic")]
                  ELSE [res |-> r, w |-> w3]
         IN finish(Stmt_accept(callable.stmt, StmtEvaluator_new(inner_scope, w2)))

(***************************************************************************)
(* StmtEvaluator visits (visitor.rs)                                       *)
(***************************************************************************)
\* what a statement visitor keeps of a nested statement visitor: its world,
\* and its signals when get_result is Err
Absorb(s, visitor) ==
    LET r == StmtEvaluator_get_result(visitor)
    IN [s EXCEPT !.w = visitor.w,
                 !.m_errors = IF r.ok THEN @ ELSE @ \o propagate(r.errors)]

\* what a statement visitor keeps of an expression visitor: its world, and
\* its errors joined into one when get_result is Err
AbsorbExpr(s, visitor) ==
    LET r == ExprEvaluator_get_result(visitor)
    IN [s EXCEPT !.w = visitor.w,
                 !.m_errors = IF r.ok THEN @ ELSE Append(@, Error(join(r.errors)))]

\* a block that would stop at the first statement that raised a signal
RECURSIVE block_loop_abort(_, _, _, _)
block_loop_abort(statements, i, block_scope, s) ==
    IF i > Len(statements) \/ Halted(s) \/ s.m_errors # <<>> THEN s
    ELSE block_loop_abort(statements, i + 1, block_scope,
                          Absorb(s, Stmt_accept(statements[i],
                                                StmtEvaluator_new(block_scope, s.w))))

\* the loop of visit_block: every statement, each with a visitor of its own
RECURSIVE block_loop(_, _, _, _)
block_loop(statements, i, block_scope, s) ==
    IF i > Len(statements) \/ Halted(s) THEN s
    ELSE block_loop(statements, i + 1, block_scope,
                    Absorb(s, Stmt_accept(statements[i],
                                          StmtEvaluator_new(block_scope, s.w))))

\* a block that would evaluate its statements in the current environment
visit_block_flat(statements, s) == block_loop(statements, 1, s.m_env, s)

visit_block(statements, s) ==
    block_loop(statements, 1, Len(s.w.heap) + 1,
               [s EXCEPT !.w = Alloc(@, s.m_env, "block")])

visit_expression(expression, s) ==
    AbsorbExpr(s, Expr_accept(expression, ExprEvaluator_new(s.m_env, s.w)))

visit_var(name, initializer, s) ==
    LET declare(visitor) ==
          LET r == ExprEvaluator_get_result(visitor)
              s1 == AbsorbExpr(s, visitor)
          IN IF Halted(visitor) \/ ~r.ok \/ name.type # "Identifier" THEN s1
             ELSE [s1 EXCEPT !.w.heap = define(@, s.m_env, name.lexeme, r.value)]
    IN declare(IF initializer # None
               THEN Expr_accept(initializer[1], ExprEvaluator_new(s.m_env, s.w))
               ELSE ExprEvaluator_new(s.m_env, s.w))

visit_if(condition, then_branch, else_branch, s) ==
    LET branch(visitor) ==
          LET r == ExprEvaluator_get_result(visitor)
              s1 == AbsorbExpr(s, visitor)
              inner_scope == Len(s1.w.heap) + 1
              s2 == [s1 EXCEPT !.w = Alloc(@, s.m_env, "if")]
          IN IF Halted(visitor) \/ ~r.ok THEN s1
             ELSE IF is_truthy(r.value)
             THEN Absorb(s2, Stmt_accept(then_branch,
                                         StmtEvaluator_new(inner_scope, s2.w)))
             ELSE IF else_branch # None
             THEN Absorb(s2, Stmt_accept(else_branch[1],
                                         StmtEvaluator_new(inner_scope, s2.w)))
             ELSE s2
    IN branch(Expr_accept(condition, ExprEvaluator_new(s.m_env, s.w)))

RECURSIVE visit_while(_, _, _)
visit_while(condition, body, s) ==
    LET iterate(visitor) ==
          LET r == ExprEvaluator_get_result(visitor)
              s1 == AbsorbExpr(s, visitor)
              inner_scope == Len(s1.w.heap) + 1
              s2 == [s1 EXCEPT !.w = Alloc([@ EXCEPT !.fuel = @ - 1], s.m_env, "while")]
          IN IF Halted(visitor) \/ ~r.ok \/ ~is_truthy(r.value) THEN s1
             ELSE IF s1.w.fuel = 0 THEN [s1 EXCEPT !.w = Halt(@, "fuel")]
             ELSE visit_while(condition, body,
                              Absorb(s2, Stmt_accept(body,
                                                     StmtEvaluator_new(inner_scope, s2.w))))
    IN iterate(Expr_accept(condition, ExprEvaluator_new(s.m_env, s.w)))

\* a declaration that would capture a copy of the current environment
capture_copy(s) ==
    [env |-> Len(s.w.heap) + 1, w |-> [s.w EXCEPT !.heap = Append(@, @[s.m_env])]]

\* the environment a function declaration captures: the handle of the
\* current environment, shared with every other holder of that handle
capture(s) == [env |-> s.m_env, w |-> s.w]

visit_function(name, params, body, s) ==
    LET c == capture(s)
        callable == Function(c.env, params, Len(params), new_block(body))
    IN [s EXCEPT !.w = [c.w EXCEPT !.heap = define(@, s.m_env, TokenDisplay(name), callable)]]

\* Return: the optional value (or Nil) is evaluated and raised as a signal
visit_return(keyword, value, s) ==
    LET raise(visitor) ==
          LET r == ExprEvaluator_get_result(visitor)
              s1 == AbsorbExpr(s, visitor)
          IN IF Halted(visitor) \/ ~r.ok THEN s1
             ELSE [s1 EXCEPT !.m_errors = Append(@, Return(r.value)),
                             !.w = Emit(@, [ev |-> "return", depth |-> s.w.depth,
                                            value |-> r.value])]
    IN raise(IF value # None
             THEN Expr_accept(value[1], ExprEvaluator_new(s.m_env, s.w))
             ELSE ExprEvaluator_new(s.m_env, s.w))

\* a variable node that carries the declarations parsed after it: the name is
\* defined in the current scope and the statements are evaluated in it
visit_var_statements(name, initializer, statements, s) ==
    block_loop(statements, 1, s.m_env, visit_var(name, initializer, s))

Stmt_accept(stmt, s) ==
    IF Halted(s) THEN s
    ELSE LET s0 == [s EXCEPT !.w = Emit(@, [ev |-> "stmt", k |-> stmt.k,
                                            env |-> s.m_env, depth |-> s.w.depth])]
         IN CASE stmt.k = "Block" -> visit_block(stmt.m_statements, s0)
              [] stmt.k = "Expression" -> visit_expression(stmt.m_expression, s0)
              [] stmt.k = "Var" ->
                    IF "m_statements" \in DOMAIN stmt
                    THEN visit_var_statements(stmt.m_name, stmt.m_initializer,
                                              stmt.m_statements, s0)
                    ELSE visit_var(stmt.m_name, stmt.m_initializer, s0)
              [] stmt.k = "While" -> visit_while(stmt.m_condition, stmt.m_body, s0)
              [] stmt.k = "If" ->
                    visit_if(stmt.m_condition, stmt.m_then_branch, stmt.m_else_branch, s0)
              [] stmt.k = "Function" ->
                    visit_function(stmt.m_name, stmt.m_params, stmt.m_body, s0)
              [] stmt.k = "Return" -> visit_return(stmt.m_keyword, stmt.m_value, s0)

(***************************************************************************)
(* Lexer (lexer.rs): the input is the sequence of its characters, each a   *)
(* one-character string; the char at position i has byte index i - 1.     *)
(***************************************************************************)
Digits == {"0", "1", "2", "3", "4", "5", "6", "7", "8", "9"}

Alphabetic ==
    {"a", "b", "c", "d", "e", "f", "g", "h", "i", "j", "k", "l", "m", "n", "o", "p", "q",
     "r", "s", "t", "u", "v", "w", "x", "y", "z", "A", "B", "C", "D", "E", "F", "G", "H",
     "I", "J", "K", "L", "M", "N", "O", "P", "Q", "R", "S", "T", "U", "V", "W", "X", "Y",
     "Z"}

\* char::to_digit
DigitValue(c) ==
    CASE c = "0" -> 0 [] c = "1" -> 1 [] c = "2" -> 2 [] c = "3" -> 3 [] c = "4" -> 4
      [] c = "5" -> 5 [] c = "6" -> 6 [] c = "7" -> 7 [] c = "8" -> 8 [] c = "9" -> 9

\* Token::new_token: the column range is token_start..token_start + token_size
new_token(token_type, token_start, token_size, line_number) ==
    token_type @@ [m_col_start |-> token_start, m_col_end |-> token_start + token_size,
                   m_line |-> line_number]

Keywords ==
    [and |-> "And", class |-> "Class", else |-> "Else", false |-> "False", fun |-> "Fun",
     for |-> "For", if |-> "If", nil |-> "Nil", or |-> "Or", print |-> "Print",
     return |-> "Return", super |-> "Super", this |-> "This", true |-> "True",
     var |-> "Var", while |-> "While"]

\* TokenType::new_identifier: a keyword kind when the lexeme is a keyword
new_identifier(lexeme) ==
    IF lexeme \in DOMAIN Keywords THEN Tok(Keywords[lexeme]) ELSE Identifier(lexeme)

Lexer_new(input) ==
    [m_chars |-> input, m_next |-> 1, m_line_number |-> 1, m_tokens |-> <<>>,
     m_errors |-> <<>>]

\* a lexer or parser diagnostic: its message with the line and column it names
Diagnostic(msg, line, column) ==
    [msg |-> msg, has_pos |-> TRUE, line |-> line, column |-> column]

\* the first position from i on whose char is not in S (Len + 1 if none)
RunEnd(chars, i, S) ==
    CHOOSE j \in i..(Len(chars) + 1) :
        /\ \A k \in i..(j - 1) : chars[k] \in S
        /\ j = Len(chars) + 1 \/ chars[j] \notin S

\* the chars of positions i..j-1 as one string
RECURSIVE Concat(_, _, _)
Concat(chars, i, j) ==
    IF i >= j THEN "" ELSE chars[i] \o Concat(chars, i + 1, j)

\* str::parse of a run of digits
RECURSIVE ParseDigits(_, _, _, _)
ParseDigits(chars, i, j, acc) ==
    IF i >= j THEN acc ELSE ParseDigits(chars, i + 1, j, acc * 10 + DigitValue(chars[i]))

\* the chars of positions i..j-1 without the newlines, and their number
RECURSIVE StringBody(_, _, _)
StringBody(chars, i, j) ==
    IF i >= j THEN [text |-> "", len |-> 0, newlines |-> 0]
    ELSE LET add(rest) ==
               IF chars[i] = "\n"
               THEN [rest EXCEPT !.newlines = @ + 1]
               ELSE [rest EXCEPT !.text = chars[i] \o @, !.len = @ + 1]
         IN add(StringBody(chars, i + 1, j))

\* Lexer::lex_token at a position that holds a char: the lexer after the
\* token and Ok(token) or Err(diagnostic)
lex_token(lx) ==
    LET chars == lx.m_chars
        i == lx.m_next
        index == lx.m_next - 1
        char == lx.m_chars[lx.m_next]
        peek == IF i + 1 <= Len(chars) THEN chars[i + 1] ELSE ""
        line == lx.m_line_number
        Advance(n, l) == [lx EXCEPT !.m_next = i + n, !.m_line_number = l]
        Ok(n, type) ==
            [lx |-> Advance(n, line), ok |-> TRUE, token |-> new_token(type, index, n, line)]
        OneOrTwo(one, two) ==
            IF peek = "=" THEN Ok(2, Tok(two)) ELSE Ok(1, Tok(one))
        NotIn(S) == {chars[k] : k \in 1..Len(chars)} \ S
    IN CASE char = "\n" ->
              [lx |-> Advance(1, line + 1), ok |-> TRUE,
               token |-> new_token(Tok("Skip"), index, 1, line + 1)]
         [] char \in {" ", "\r", "\t"} -> Ok(1, Tok("Skip"))
         [] char = "(" -> Ok(1, Tok("LeftParen"))
         [] char = ")" -> Ok(1, Tok("RightParen"))
         [] char = "{" -> Ok(1, Tok("LeftBrace"))
         [] char = "}" -> Ok(1, Tok("RightBrace"))
         [] char = "," -> Ok(1, Tok("Comma"))
         [] char = "." -> Ok(1, Tok("Dot"))
         [] char = "-" -> Ok(1, Tok("Minus"))
         [] char = "+" -> Ok(1, Tok("Plus"))
         [] char = ";" -> Ok(1, Tok("Semicolon"))
         [] char = "*" -> Ok(1, Tok("Star"))
         [] char = "!" -> OneOrTwo("Bang", "BangEqual")
         [] char = "=" -> OneOrTwo("Equal", "EqualEqual")
         [] char = "<" -> OneOrTwo("Less", "LessEqual")
         [] char = ">" -> OneOrTwo("Greater", "GreaterEqual")
         [] char = "/" ->
              IF peek = "/"
              THEN LET j == RunEnd(chars, i + 2, NotIn({"\n"}))
                       l == IF j <= Len(chars) THEN line + 1 ELSE line
                   IN [lx |-> [lx EXCEPT !.m_next = IF j <= Len(chars) THEN j + 1 ELSE j,
                                         !.m_line_number = l],
                       ok |-> TRUE, token |-> new_token(Tok("Skip"), index, 1, l)]
              ELSE Ok(1, Tok("Slash"))
         [] char = "\"" ->
              LET j == RunEnd(chars, i + 1, NotIn({"\""}))
                  lexeme == StringBody(chars, i + 1, j)
                  l == line + lexeme.newlines
              IN IF j > Len(chars)
                 THEN [lx |-> [lx EXCEPT !.m_next = j, !.m_line_number = l], ok |-> FALSE,
                       err |-> Diagnostic("Unterminated string", l, index + 1 + lexeme.len)]
                 ELSE [lx |-> [lx EXCEPT !.m_next = j + 1, !.m_line_number = l], ok |-> TRUE,
                       token |-> new_token(StringTok(lexeme.text), index, lexeme.len + 2, l)]
         [] char \in Digits ->
              LET j == RunEnd(chars, i, Digits)
                  point == /\ j + 1 <= Len(chars)
                           /\ chars[j] = "."
                           /\ chars[j + 1] \in Digits
                  k == RunEnd(chars, j + 1, Digits)
              IN IF point
                 THEN [lx |-> [lx EXCEPT !.m_next = k], ok |-> TRUE,
                       token |-> new_token(NumberTok([whole |-> ParseDigits(chars, i, j, 0),
                                                      frac |-> Concat(chars, j + 1, k)]),
                                           index, k - i, line)]
                 ELSE [lx |-> [lx EXCEPT !.m_next = j], ok |-> TRUE,
                       token |-> new_token(NumberTok(ParseDigits(chars, i, j, 0)),
                                           index, j - i, line)]
         [] char \in Alphabetic \cup {"_"} ->
              LET j == RunEnd(chars, i, Alphabetic \cup Digits \cup {"_"})
              IN [lx |-> [lx EXCEPT !.m_next = j], ok |-> TRUE,
                  token |-> new_token(new_identifier(Concat(chars, i, j)), index, j - i, line)]
         [] OTHER ->
              [lx |-> Advance(1, line), ok |-> FALSE,
               err |-> Diagnostic("Unexpected character", line, index + 1)]

\* the loop of Lexer::tokenize: Skip tokens are dropped
\* a loop that would stop at the first diagnostic
RECURSIVE tokenize_loop_stop(_)
tokenize_loop_stop(lx) ==
    IF lx.m_next > Len(lx.m_chars) \/ lx.m_errors # <<>> THEN lx
    ELSE LET keep(r) ==
               IF ~r.ok THEN [r.lx EXCEPT !.m_errors = Append(@, r.err)]
               ELSE IF r.token.type = "Skip" THEN r.lx
               ELSE [r.lx EXCEPT !.m_tokens = Append(@, r.token)]
         IN tokenize_loop_stop(keep(lex_token(lx)))
RECURSIVE tokenize_loop(_)
tokenize_loop(lx) ==
    IF lx.m_next > Len(lx.m_chars) THEN lx
    ELSE LET keep(r) ==
               IF ~r.ok THEN [r.lx EXCEPT !.m_errors = Append(@, r.err)]
               ELSE IF r.token.type = "Skip" THEN r.lx
               ELSE [r.lx EXCEPT !.m_tokens = Append(@, r.token)]
         IN tokenize_loop(keep(lex_token(lx)))

\* Lexer::tokenize: the tokens closed by Eof, or the diagnostics
tokenize(input) ==
    LET finish(lx) ==
          IF lx.m_errors = <<>>
          THEN [ok |-> TRUE,
                tokens |-> Append(lx.m_tokens,
                                  new_token(Tok("Eof"), 0, 0, lx.m_line_number + 1))]
          ELSE [ok |-> FALSE, errors |-> lx.m_errors]
    IN finish(tokenize_loop(Lexer_new(input)))

(***************************************************************************)
(* Parser (parser.rs).  m_next is the position of the token iterator; a    *)
(* production yields the parser after it and Ok(node) or Err; `panic` is   *)
(* set when an unwrap() meets None.                                         *)
(***************************************************************************)
\* the cap on parameters and arguments
MaxArity == 255

Parser_new(tokens) ==
    [m_tokens |-> tokens, m_next |-> 1, m_current |-> None, m_previous |-> None,
     m_errors |-> <<>>, panic |-> FALSE, heads |-> <<>>]

\* ghost: the parser stands at the head of a loop with m_next as the next
\* token position, and goes into the body of the loop
Enter(p, loop) == [p EXCEPT !.heads = Append(@, <<loop, p.m_next, TRUE>>)]
\* ghost: the parser stands at the head of a loop and leaves it
Leave(p, loop) == [p EXCEPT !.heads = Append(@, <<loop, p.m_next, FALSE>>)]
\* ghost: a declaration of the top-level loop returned Err
Failed(p) == [p EXCEPT !.heads = Append(@, <<"failed", p.m_next, FALSE>>)]

peek_next(p) ==
    IF p.m_next <= Len(p.m_tokens) THEN Some(p.m_tokens[p.m_next]) ELSE None

take_next(p) ==
    [p EXCEPT !.m_previous = p.m_current,
              !.m_current = peek_next(p),
              !.m_next = IF p.m_next <= Len(p.m_tokens) THEN p.m_next + 1 ELSE p.m_next]

\* match_token!: the next token is of one of the types
match_token(p, types) ==
    peek_next(p) # None /\ peek_next(p)[1].type \in types

\* multi_match_token!: the next tokens are of the given types, one after another
multi_match_token(p, types) ==
    \A i \in 1..Len(types) :
        /\ p.m_next + i - 1 <= Len(p.m_tokens)
        /\ p.m_tokens[p.m_next + i - 1].type = types[i]

Succeed(p, node) == [p |-> p, ok |-> TRUE, node |-> node]
Fail(p) == [p |-> p, ok |-> FALSE]
Panic(p) == [p |-> [p EXCEPT !.panic = TRUE], ok |-> FALSE]

saturating_sub(a, b) == IF a >= b THEN a - b ELSE 0

\* an error anchored at m_previous.unwrap()
PreviousError(p, msg) ==
    IF p.m_previous = None THEN Panic(p)
    ELSE Fail([p EXCEPT !.m_errors =
                 Append(@, Diagnostic(msg, p.m_previous[1].m_line,
                                      p.m_previous[1].m_col_start + 1))])

\* the same with the line reduced by one
PreviousErrorAbove(p, msg) ==
    IF p.m_previous = None THEN Panic(p)
    ELSE Fail([p EXCEPT !.m_errors =
                 Append(@, Diagnostic(msg, saturating_sub(p.m_previous[1].m_line, 1),
                                      p.m_previous[1].m_col_start + 1))])

\* an error anchored at a token, its line reduced by one
TokenError(p, msg, token) ==
    Fail([p EXCEPT !.m_errors =
            Append(@, Diagnostic(msg, saturating_sub(token.m_line, 1),
                                 token.m_col_start + 1))])

\* the match on take_next() that ends a statement: the ';' or an error
expect_semicolon(p, msg) ==
    LET p1 == take_next(p)
    IN IF p1.m_current = None THEN PreviousErrorAbove(p1, msg)
       ELSE IF p1.m_current[1].type = "Semicolon" THEN Succeed(p1, None)
       ELSE TokenError(p1, msg, p1.m_current[1])

\* Expr::new_function and the Stmt::new_var of this parser, which carries the
\* declarations that follow the variable
Expr_new_function(params, body) ==
    [k |-> "FunctionExpr", m_params |-> params, m_body |-> body]
Stmt_new_var(name, initializer, statements) ==
    [k |-> "Var", m_name |-> name, m_initializer |-> initializer,
     m_statements |-> statements]

RECURSIVE expression(_), statement(_), declaration(_), primary(_), finish_call(_, _),
          call_loop(_), unary(_), operand(_, _), binary_loop(_, _), assignment(_),
          parameters_loop(_, _, _), arguments_loop(_, _), grouping_loop(_, _),
          block_loop_parse(_, _), var_statements(_, _), factor(_), term(_),
          comparison(_), equality(_), and(_), or(_)

\* the loop that collects parameters: any token is taken as a parameter; the
\* function expression anchors the error at m_current, the declaration at
\* m_previous
parameters_loop(p, parameters, in_expression) ==
    IF Len(parameters) >= MaxArity
    THEN LET anchor == IF in_expression THEN p.m_current ELSE p.m_previous
         IN IF anchor = None THEN Panic(Leave(p, "parameters"))
            ELSE Fail([Leave(p, "parameters") EXCEPT !.m_errors =
                         Append(@, Diagnostic("Cannot have more than 255 parameters",
                                              anchor[1].m_line,
                                              anchor[1].m_col_start + 1))])
    ELSE LET p1 == take_next(Enter(p, "parameters"))
         IN IF p1.m_current = None THEN Panic(p1)
            ELSE IF ~match_token(p1, {"Comma"})
            THEN Succeed(p1, Append(parameters, p1.m_current[1]))
            ELSE parameters_loop(take_next(p1), Append(parameters, p1.m_current[1]),
                                 in_expression)

\* after `(` of a function: parameters, `)`, and the block that is the body;
\* name is None for a function expression
function_rest(p, name) ==
    LET body(p2, parameters) ==
          IF match_token(p2, {"LeftBrace"})
          THEN LET wrap(r) ==
                     IF ~r.ok THEN r
                     ELSE IF r.node.k # "Block"
                     THEN PreviousError(r.p, "Expected block after function declaration")
                     ELSE IF name = None
                     THEN Succeed(r.p, Expr_new_function(parameters, r.node.m_statements))
                     ELSE Succeed(r.p, new_function(name[1], parameters,
                                                    r.node.m_statements))
               IN wrap(statement(p2))
          ELSE PreviousError(p2, "Expected '{' after function declaration")
        close(r) ==
          IF ~r.ok THEN r
          ELSE IF match_token(r.p, {"RightParen"}) THEN body(take_next(r.p), r.node)
          ELSE PreviousError(r.p, "Expected ')' after function parameters")
    IN close(IF match_token(p, {"RightParen"}) THEN Succeed(p, <<>>)
             ELSE parameters_loop(p, <<>>, name = None))

\* the loop of a grouping: tokens before the ')' are taken and dropped
grouping_loop(p, expr) ==
    IF match_token(p, {"RightParen"})
    THEN Succeed(take_next(Leave(p, "grouping")), new_grouping(expr))
    ELSE LET p1 == take_next(Enter(p, "grouping"))
         IN IF p1.m_current = None
            THEN PreviousError(p1, "Unterminated grouping, expected ')'")
            ELSE grouping_loop(p1, expr)

primary(p) ==
    IF multi_match_token(p, <<"Fun", "LeftParen">>)
    THEN function_rest(take_next(take_next(p)), None)
    ELSE IF match_token(p, {"False", "True", "String", "Number", "Nil"})
    THEN Succeed(take_next(p), new_literal(peek_next(p)[1]))
    ELSE IF match_token(p, {"Identifier"})
    THEN Succeed(take_next(p), new_variable(peek_next(p)[1]))
    ELSE IF match_token(p, {"LeftParen"})
    THEN LET close(r) == IF ~r.ok THEN r ELSE grouping_loop(r.p, r.node)
         IN close(expression(take_next(p)))
    ELSE IF p.m_previous # None
    THEN Fail([p EXCEPT !.m_errors =
                 Append(@, Diagnostic("Invalid operands, expected expression",
                                      p.m_previous[1].m_line,
                                      p.m_previous[1].m_col_start + 1))])
    ELSE IF p.m_current # None
    THEN Fail([p EXCEPT !.m_errors =
                 Append(@, Diagnostic("Invalid operands, expected expression",
                                      p.m_current[1].m_line,
                                      p.m_current[1].m_col_start + 1))])
    ELSE Fail([p EXCEPT !.m_errors =
                 Append(@, [msg |-> "Invalid operands, expected expression",
                            has_pos |-> FALSE, line |-> 0, column |-> 0])])

\* the loop that collects arguments, entered when the next token is not ')'
\* a loop whose cap lets one argument more through
arguments_loop_over(p, arguments) ==
    IF Len(arguments) > MaxArity
    THEN PreviousError(Leave(p, "arguments"), "Cannot have more than 255 arguments")
    ELSE LET more(r) ==
               IF ~r.ok THEN r
               ELSE IF ~match_token(r.p, {"Comma"})
               THEN Succeed(r.p, Append(arguments, r.node))
               ELSE arguments_loop(take_next(r.p), Append(arguments, r.node))
         IN more(expression(Enter(p, "arguments")))

arguments_loop(p, arguments) ==
    IF Len(arguments) >= MaxArity
    THEN PreviousError(Leave(p, "arguments"), "Cannot have more than 255 arguments")
    ELSE LET more(r) ==
               IF ~r.ok THEN r
               ELSE IF ~match_token(r.p, {"Comma"})
               THEN Succeed(r.p, Append(arguments, r.node))
               ELSE arguments_loop(take_next(r.p), Append(arguments, r.node))
         IN more(expression(Enter(p, "arguments")))

finish_call(p, callee) ==
    LET close(r) ==
          IF ~r.ok THEN r
          ELSE LET p1 == take_next(r.p)
               IN IF p1.m_current = None
                  THEN PreviousErrorAbove(p1, "Expected ')' after arguments")
                  ELSE IF p1.m_current[1].type = "RightParen"
                  THEN Succeed(p1, new_call(callee, p1.m_current[1], r.node))
                  ELSE TokenError(p1, "Expected ')' after arguments", p1.m_current[1])
    IN close(IF match_token(p, {"RightParen"}) THEN Succeed(p, <<>>)
             ELSE arguments_loop(p, <<>>))

\* the loop of call(): one finish_call per '(' that follows
call_loop(r) ==
    IF ~r.ok THEN r
    ELSE IF match_token(r.p, {"LeftParen"})
    THEN call_loop(finish_call(take_next(r.p), r.node))
    ELSE r

call_production(p) == call_loop(primary(p))

unary(p) ==
    IF match_token(p, {"Bang", "Minus"})
    THEN LET wrap(r) == IF ~r.ok THEN r
                        ELSE Succeed(r.p, new_unary(peek_next(p)[1], r.node))
         IN wrap(unary(take_next(p)))
    ELSE call_production(p)

\* the operators of the binary levels factor, term, comparison, equality,
\* and, or
Operators_swapped(level) ==
    CASE level = "factor" -> {"Minus", "Plus"}
      [] level = "term" -> {"Slash", "Star"}
      [] level = "comparison" -> {"Greater", "GreaterEqual", "Less", "LessEqual"}
      [] level = "equality" -> {"BangEqual", "EqualEqual"}
      [] level = "and" -> {"And"}
      [] level = "or" -> {"Or"}
Operators(level) ==
    CASE level = "factor" -> {"Slash", "Star"}
      [] level = "term" -> {"Minus", "Plus"}
      [] level = "comparison" -> {"Greater", "GreaterEqual", "Less", "LessEqual"}
      [] level = "equality" -> {"BangEqual", "EqualEqual"}
      [] level = "and" -> {"And"}
      [] level = "or" -> {"Or"}

\* the production a level takes its operands from
operand(level, p) ==
    CASE level = "factor" -> unary(p)
      [] level = "term" -> factor(p)
      [] level = "comparison" -> term(p)
      [] level = "equality" -> comparison(p)
      [] level = "and" -> equality(p)
      [] level = "or" -> and(p)

\* the while loop of a level: the tree grows to the left
binary_loop(level, r) ==
    IF ~r.ok THEN r
    ELSE IF match_token(r.p, Operators(level))
    THEN LET operator == peek_next(r.p)[1]
             fold(right) ==
               IF ~right.ok THEN right
               ELSE binary_loop(level,
                      Succeed(right.p,
                              IF level \in {"and", "or"}
                              THEN new_logical(r.node, operator, right.node)
                              ELSE new_binary(r.node, operator, right.node)))
         IN fold(operand(level, take_next(r.p)))
    ELSE r

factor(p) == binary_loop("factor", operand("factor", p))
term(p) == binary_loop("term", operand("term", p))
comparison(p) == binary_loop("comparison", operand("comparison", p))
equality(p) == binary_loop("equality", operand("equality", p))
and(p) == binary_loop("and", operand("and", p))
or(p) == binary_loop("or", operand("or", p))

assignment(p) ==
    LET assign_to(r) ==
          IF ~r.ok THEN r
          ELSE IF match_token(r.p, {"Equal"})
          THEN LET equals == peek_next(r.p)[1]
                   store(value) ==
                     IF ~value.ok THEN value
                     ELSE IF r.node.k = "Variable"
                     THEN Succeed(value.p, new_assign(r.node.m_token, value.node))
                     ELSE Fail([value.p EXCEPT !.m_errors =
                                  Append(@, Diagnostic("Invalid assignment target",
                                                       equals.m_line,
                                                       equals.m_col_start + 1))])
               IN store(assignment(take_next(r.p)))
          ELSE r
    IN assign_to(or(p))

expression(p) == assignment(p)

\* the loop of a block, entered after its '{'
block_loop_parse(p, statements) ==
    IF match_token(p, {"RightBrace"})
    THEN Succeed(take_next(Leave(p, "block")), new_block(statements))
    ELSE IF peek_next(p) = None
    THEN PreviousError(Leave(p, "block"), "Unterminated block, expected '}'")
    ELSE LET more(r) == IF ~r.ok THEN r
                        ELSE block_loop_parse(r.p, Append(statements, r.node))
         IN more(declaration(Enter(p, "block")))

\* `if`, entered after the keyword
if_statement(p) ==
    IF match_token(p, {"LeftParen"})
    THEN LET else_branch(r, condition, then_branch) ==
               IF ~r.ok THEN r
               ELSE Succeed(r.p, new_if(condition, then_branch, Some(r.node)))
             branches(r, condition) ==
               IF ~r.ok THEN r
               ELSE IF match_token(r.p, {"Else"})
               THEN else_branch(statement(take_next(r.p)), condition, r.node)
               ELSE Succeed(r.p, new_if(condition, r.node, None))
             then_branch(r) ==
               IF ~r.ok THEN r
               ELSE IF match_token(r.p, {"RightParen"})
               THEN branches(statement(take_next(r.p)), r.node)
               ELSE PreviousError(r.p, "Expected ')' after if condition")
         IN then_branch(expression(take_next(p)))
    ELSE PreviousError(p, "Expected '(' after 'if'")

\* `while`, entered after the keyword
while_statement(p) ==
    IF match_token(p, {"LeftParen"})
    THEN LET wrap(r, condition) ==
               IF ~r.ok THEN r ELSE Succeed(r.p, new_while(condition, r.node))
             body(r) ==
               IF ~r.ok THEN r
               ELSE IF match_token(r.p, {"RightParen"})
               THEN wrap(statement(take_next(r.p)), r.node)
               ELSE PreviousError(r.p, "Expected ')' after while condition")
         IN body(expression(take_next(p)))
    ELSE PreviousError(p, "Expected '(' after 'while'")

\* Some(..) around the node of a production that succeeded
Optional(r) == IF ~r.ok THEN r ELSE Succeed(r.p, Some(r.node))

\* the initializer `var name = value;` of a for loop: an assignment statement
for_var_initializer(p) ==
    LET p2 == take_next(take_next(p))
        name == p2.m_current[1]
        finish(value) ==
          IF ~value.ok THEN value
          ELSE LET semicolon(r) ==
                     IF ~r.ok THEN r
                     ELSE IF value.node = None THEN Panic(r.p)
                     ELSE Succeed(r.p, Some(new_expression(
                                          new_assign(name, value.node[1]))))
               IN semicolon(expect_semicolon(value.p,
                                             "Expected ';' after variable declaration"))
    IN IF name.type # "Identifier"
       THEN TokenError(p2, "Expected identifier after 'var'", name)
       ELSE finish(IF match_token(p2, {"Equal"})
                   THEN Optional(expression(take_next(p2)))
                   ELSE Succeed(p2, None))

\* an expression as the initializer of a for loop
for_expression_initializer(p) ==
    LET semicolon(r) ==
          IF ~r.ok THEN r
          ELSE IF match_token(r.p, {"Semicolon"})
          THEN Succeed(take_next(r.p), Some(new_expression(r.node)))
          ELSE PreviousError(r.p, "Expected ';' after for loop initializer")
    IN semicolon(expression(p))

\* what a for loop becomes: the body, then block, while and variable around
\* it where the increment, the condition and the initializer are present
for_desugar(p, initializer, condition, increment, body) ==
    LET with_increment ==
          IF increment # None
          THEN new_block(<<body, new_expression(increment[1])>>) ELSE body
        with_condition ==
          IF condition # None THEN new_while(condition[1], with_increment)
          ELSE with_increment
    IN IF initializer = None THEN Succeed(p, with_condition)
       ELSE IF initializer[1].k = "Expression"
               /\ initializer[1].m_expression.k = "Assign"
       THEN Succeed(p, Stmt_new_var(initializer[1].m_expression.m_token,
                                    Some(initializer[1].m_expression.m_value),
                                    <<with_condition>>))
       ELSE PreviousError(p, "Expected expression after 'var'")

\* `for`, entered after the keyword.  An absent initializer leaves its ';' to
\* the condition clause.
for_statement(p) ==
    IF match_token(p, {"LeftParen"})
    THEN LET body(r, initializer, condition, increment) ==
               IF ~r.ok THEN r
               ELSE for_desugar(r.p, initializer, condition, increment, r.node)
             increment(r, initializer, condition) ==
               IF ~r.ok THEN r
               ELSE IF match_token(r.p, {"RightParen"})
               THEN body(statement(take_next(r.p)), initializer, condition, r.node)
               ELSE PreviousError(r.p, "Expected ')' after for loop increment")
             condition(r, initializer) ==
               IF ~r.ok THEN r
               ELSE IF match_token(r.p, {"Semicolon"})
               THEN LET p1 == take_next(r.p)
                    IN increment(IF match_token(p1, {"RightParen"})
                                 THEN Succeed(p1, None)
                                 ELSE Optional(expression(p1)),
                                 initializer, r.node)
               ELSE PreviousError(r.p, "Expected ';' after for loop condition")
             initializer(r) ==
               IF ~r.ok THEN r
               ELSE condition(IF match_token(r.p, {"Semicolon"})
                              THEN Succeed(r.p, None)
                              ELSE Optional(expression(r.p)),
                              r.node)
             p0 == take_next(p)
         IN initializer(IF match_token(p0, {"Semicolon"}) THEN Succeed(p0, None)
                        ELSE IF multi_match_token(p0, <<"Var", "Identifier", "Equal">>)
                        THEN for_var_initializer(p0)
                        ELSE for_expression_initializer(p0))
    ELSE PreviousError(p, "Expected '(' after 'for'")

statement(p) ==
    IF match_token(p, {"LeftBrace"}) THEN block_loop_parse(take_next(p), <<>>)
    ELSE IF match_token(p, {"If"}) THEN if_statement(take_next(p))
    ELSE IF match_token(p, {"While"}) THEN while_statement(take_next(p))
    ELSE IF match_token(p, {"For"}) THEN for_statement(take_next(p))
    ELSE LET semicolon(r) ==
               IF ~r.ok THEN r
               ELSE LET end(r2) == IF ~r2.ok THEN r2
                                   ELSE Succeed(r2.p, new_expression(r.node))
                    IN end(expect_semicolon(r.p, "Expected ';' after expression"))
         IN semicolon(expression(p))

\* the declarations that follow a variable up to the '}' or the end of the
\* input: they become the statements of the variable
var_statements(p, statements) ==
    IF peek_next(p) # None /\ ~match_token(p, {"RightBrace", "Eof"})
    THEN LET more(r) == IF ~r.ok THEN r
                        ELSE var_statements(r.p, Append(statements, r.node))
         IN more(declaration(Enter(p, "var")))
    ELSE Succeed(Leave(p, "var"), statements)

\* `var`, entered after the keyword
var_declaration(p) ==
    LET p1 == take_next(p)
        rest(r, initializer) ==
          IF ~r.ok THEN r
          ELSE Succeed(r.p, Stmt_new_var(p1.m_current[1], initializer, r.node))
        semicolon(r, initializer) ==
          IF ~r.ok THEN r ELSE rest(var_statements(r.p, <<>>), initializer)
        finish(value) ==
          IF ~value.ok THEN value
          ELSE semicolon(expect_semicolon(value.p,
                                          "Expected ';' after variable declaration"),
                         value.node)
    IN IF p1.m_current = None THEN Panic(p1)
       ELSE IF p1.m_current[1].type # "Identifier"
       THEN TokenError(p1, "Expected identifier after 'var'", p1.m_current[1])
       ELSE finish(IF match_token(p1, {"Equal"})
                   THEN Optional(expression(take_next(p1)))
                   ELSE Succeed(p1, None))

\* `fun name`, entered after the keyword
fun_declaration(p) ==
    IF peek_next(p) = None THEN Panic(p)
    ELSE IF peek_next(p)[1].type # "Identifier"
    THEN PreviousError(p, "Expected identifier after 'fun'")
    ELSE LET p1 == take_next(p)
             name == p1.m_current[1]
         IN IF match_token(p1, {"LeftParen"})
            THEN function_rest(take_next(p1), Some(name))
            ELSE Fail([p1 EXCEPT !.m_errors =
                         Append(@, Diagnostic("Expected '(' after function name",
                                              saturating_sub(name.m_line, 1),
                                              name.m_col_start))])

\* `return`, entered after the keyword: the keyword kept is m_previous
return_declaration(p) ==
    IF p.m_previous = None THEN Panic(p)
    ELSE LET finish(value) ==
               IF ~value.ok THEN value
               ELSE LET semicolon(r) ==
                          IF ~r.ok THEN r
                          ELSE Succeed(r.p, new_return(p.m_previous[1], value.node))
                    IN semicolon(expect_semicolon(value.p,
                                                  "Expected ';' after return value"))
         IN finish(IF ~match_token(p, {"Semicolon"}) THEN Optional(expression(p))
                   ELSE Succeed(p, None))

declaration(p) ==
    IF match_token(p, {"Var"}) THEN var_declaration(take_next(p))
    ELSE IF multi_match_token(p, <<"Fun", "Identifier">>)
    THEN fun_declaration(take_next(p))
    ELSE IF match_token(p, {"Return"}) THEN return_declaration(take_next(p))
    ELSE statement(p)

\* sync: tokens are taken up to and with a ';', or up to a `return`
RECURSIVE sync(_)
sync(p) ==
    LET p1 == take_next(IF peek_next(p) = None THEN Leave(p, "sync")
                        ELSE Enter(p, "sync"))
    IN IF p1.m_current = None THEN p1
       ELSE IF p1.m_current[1].type = "Semicolon" THEN p1
       ELSE IF match_token(p1, {"Return"}) THEN p1
       ELSE sync(p1)

\* the loop of parse: a declaration that fails is dropped and the parser
\* synchronises; an unwrap() that met None ends everything.  `failed` counts
\* the declarations that returned Err.
RECURSIVE parse_loop(_, _, _)
\* a top-level loop that goes on behind a failed declaration without sync
\* when the declaration has taken a token
parse_loop_nosync(p, statements, failed) ==
    IF peek_next(p) # None /\ peek_next(p)[1].type # "Eof"
    THEN LET next(r) ==
               IF r.p.panic
               THEN [p |-> r.p, statements |-> statements, failed |-> failed + 1]
               ELSE IF r.ok THEN parse_loop(r.p, Append(statements, r.node), failed)
               ELSE IF r.p.m_next > p.m_next
               THEN parse_loop(Failed(r.p), statements, failed + 1)
               ELSE parse_loop(sync(Failed(r.p)), statements, failed + 1)
         IN next(declaration(Enter(p, "parse")))
    ELSE [p |-> Leave(p, "parse"), statements |-> statements, failed |-> failed]

parse_loop(p, statements, failed) ==
    IF peek_next(p) # None /\ peek_next(p)[1].type # "Eof"
    THEN LET next(r) ==
               IF r.p.panic
               THEN [p |-> r.p, statements |-> statements, failed |-> failed + 1]
               ELSE IF r.ok THEN parse_loop(r.p, Append(statements, r.node), failed)
               ELSE parse_loop(sync(Failed(r.p)), statements, failed + 1)
         IN next(declaration(Enter(p, "parse")))
    ELSE [p |-> Leave(p, "parse"), statements |-> statements, failed |-> failed]

\* a parser that would hand over its statements whatever it reported
parse_result_lenient(p, statements) ==
    [ok |-> TRUE, statements |-> statements]
\* Ok(statements) when no error was pushed, Err(errors) otherwise
parse_result(p, statements) ==
    IF p.m_errors = <<>> THEN [ok |-> TRUE, statements |-> statements]
    ELSE [ok |-> FALSE, errors |-> p.m_errors]

parse(tokens) ==
    LET finish(r) ==
          IF r.p.panic
          THEN [ok |-> FALSE, panic |-> TRUE, errors |-> r.p.m_errors,
                failed |-> r.failed, pushed |-> r.p.m_errors, heads |-> r.p.heads]
          ELSE parse_result(r.p, r.statements)
               @@ [panic |-> FALSE, failed |-> r.failed, pushed |-> r.p.m_errors,
                   heads |-> r.p.heads]
    IN finish(parse_loop(Parser_new(tokens), <<>>, 0))

(***************************************************************************)
(* Interpreter (interpreter.rs)                                            *)
(***************************************************************************)
GlobalEnv == 1

\* the body of the user callable test2 registered by Interpreter::new
Test2Body ==
    new_block(<<
        new_expression(new_call(new_variable(Identifier("println")), Tok("LeftParen"),
            <<new_literal(StringTok("testing123 from rlox print function"))>>)),
        new_return(Tok("Nil"), Some(new_literal(StringTok("HELLO RETURN"))))>>)

\* the global scope built by Interpreter::new
Interpreter_new ==
    LET h0 == Environment_new(<<>>)
        h1 == define(h0, GlobalEnv, "clock", NativeFunction(0, "clock"))
        h2 == define(h1, GlobalEnv, "sleep_secs", NativeFunction(1, "sleep_secs"))
        h3 == define(h2, GlobalEnv, "sleep_millis", NativeFunction(1, "sleep_millis"))
        h4 == define(h3, GlobalEnv, "print", NativeFunction(1, "print"))
        h5 == define(h4, GlobalEnv, "println", NativeFunction(1, "println"))
        h6 == define(h5, GlobalEnv, "read_line", NativeFunction(0, "read_line"))
        h7 == define(h6, GlobalEnv, "dbg", NativeFunction(1, "dbg"))
        h8 == define(h7, GlobalEnv, "test0", NativeFunction(0, "test0"))
    IN define(h8, GlobalEnv, "test2", Function(GlobalEnv, <<>>, 0, Test2Body))

NoOp == [op |-> "none"]
\* no line read yet
NoLines == [count |-> 0, group |-> <<>>, closed |-> FALSE]

(***************************************************************************)
(* The programs the interpreter is run on, as the statement lists the      *)
(* parser hands to the evaluator.                                          *)
(***************************************************************************)
V(name) == new_variable(Identifier(name))
N(n) == new_literal(NumberTok(n))
S(str) == new_literal(StringTok(str))
TrueLit == new_literal(Tok("True"))
FalseLit == new_literal(Tok("False"))
CallE(callee, args) == new_call(callee, Tok("RightParen"), args)
Bin(l, type, r) == new_binary(l, Tok(type), r)
Asg(name, e) == new_assign(Identifier(name), e)
ExprS(e) == new_expression(e)
Println(e) == ExprS(CallE(V("println"), <<e>>))
VarS(name, e) == new_var(Identifier(name), Some(e))
Fun(name, params, body) ==
    new_function(Identifier(name), [i \in 1..Len(params) |-> Identifier(params[i])], body)
Ret(e) == new_return(Tok("Return"), Some(e))

\* var x = "global"; fun show() { println(x); } { var x = "local"; show(); }
\* fun f(a) { println(a); } { var y = 1; f(2); }
\* fun mk() { var v = "mk"; fun in() { println(v); } return in; }
\* var h = mk(); { var v = "caller"; h(); }
ProgScope ==
    <<VarS("x", S("global")),
      Fun("show", <<>>, <<Println(V("x"))>>),
      new_block(<<VarS("x", S("local")), ExprS(CallE(V("show"), <<>>))>>),
      Fun("f", <<"a">>, <<Println(V("a"))>>),
      new_block(<<VarS("y", N(1)), ExprS(CallE(V("f"), <<N(2)>>))>>),
      Fun("mk", <<>>, <<VarS("v", S("mk")),
                        Fun("in", <<>>, <<Println(V("v"))>>),
                        Ret(V("in"))>>),
      VarS("h", CallE(V("mk"), <<>>)),
      new_block(<<VarS("v", S("caller")), ExprS(CallE(V("h"), <<>>))>>)>>

\* fun makeCounter() { var i = 0; fun count() { i = i + 1; return i; } return count; }
\* var c = makeCounter(); println(c()); println(c()); println(c());
\* var d = makeCounter(); println(d()); println(c());
\* var n = 0; fun inc() { n = n + 1; } fun peek() { return n; } inc(); println(peek());
ProgCounter ==
    <<Fun("makeCounter", <<>>,
          <<VarS("i", N(0)),
            Fun("count", <<>>, <<ExprS(Asg("i", Bin(V("i"), "Plus", N(1)))), Ret(V("i"))>>),
            Ret(V("count"))>>),
      VarS("c", CallE(V("makeCounter"), <<>>)),
      Println(CallE(V("c"), <<>>)),
      Println(CallE(V("c"), <<>>)),
      Println(CallE(V("c"), <<>>)),
      VarS("d", CallE(V("makeCounter"), <<>>)),
      Println(CallE(V("d"), <<>>)),
      Println(CallE(V("c"), <<>>)),
      VarS("n", N(0)),
      Fun("inc", <<>>, <<ExprS(Asg("n", Bin(V("n"), "Plus", N(1))))>>),
      Fun("peek", <<>>, <<Ret(V("n"))>>),
      ExprS(CallE(V("inc"), <<>>)),
      Println(CallE(V("peek"), <<>>))>>

\* fun none() { } println(none());
\* fun empty() { return; } println(empty());
\* fun one() { return 1; } println(one());
\* fun nested() { if (true) { return 2; } } println(nested());
\* println(test2());
ProgReturn ==
    <<Fun("none", <<>>, <<>>),
      Println(CallE(V("none"), <<>>)),
      Fun("empty", <<>>, <<new_return(Tok("Return"), None)>>),
      Println(CallE(V("empty"), <<>>)),
      Fun("one", <<>>, <<Ret(N(1))>>),
      Println(CallE(V("one"), <<>>)),
      Fun("nested", <<>>, <<new_if(TrueLit, new_block(<<Ret(N(2))>>), None)>>),
      Println(CallE(V("nested"), <<>>)),
      Println(CallE(V("test2"), <<>>))>>

\* fun early() { return 1; println("after"); } println(early());
\* fun loop() { var i = 0; while (i < 3) { i = i + 1; return i; } } println(loop());
ProgEarly ==
    <<Fun("early", <<>>, <<Ret(N(1)), Println(S("after"))>>),
      Println(CallE(V("early"), <<>>)),
      Fun("loop", <<>>,
          <<VarS("i", N(0)),
            new_while(Bin(V("i"), "Less", N(3)),
                      new_block(<<ExprS(Asg("i", Bin(V("i"), "Plus", N(1)))),
                                  Ret(V("i"))>>))>>),
      Println(CallE(V("loop"), <<>>))>>

\* fun bad() { return 1; undefined; } println(bad()); println("next");
ProgReturnThenError ==
    <<Fun("bad", <<>>, <<Ret(N(1)), ExprS(V("undefined"))>>),
      Println(CallE(V("bad"), <<>>)),
      Println(S("next"))>>

\* var g = 0; var k = "outer";
\* { var b = 1; var k = "inner"; g = b; }
\* if (true) var t = 2;
\* if (false) g = 9; else var e = 3;
\* var j = 0; while (j < 2) var w = (j = j + 1);
\* var m = 0; while (m < 2) { println(seen); var seen = m; m = m + 1; }
ProgBlock ==
    <<VarS("g", N(0)),
      VarS("k", S("outer")),
      new_block(<<VarS("b", N(1)), VarS("k", S("inner")), ExprS(Asg("g", V("b")))>>),
      new_if(TrueLit, VarS("t", N(2)), None),
      new_if(FalseLit, ExprS(Asg("g", N(9))), Some(VarS("e", N(3)))),
      VarS("j", N(0)),
      new_while(Bin(V("j"), "Less", N(2)),
                VarS("w", new_grouping(Asg("j", Bin(V("j"), "Plus", N(1)))))),
      VarS("m", N(0)),
      new_while(Bin(V("m"), "Less", N(2)),
                new_block(<<Println(V("seen")),
                            VarS("seen", V("m")),
                            ExprS(Asg("m", Bin(V("m"), "Plus", N(1))))>>))>>

\* fun bomb() { println("boom"); return true; }
\* var p = false and bomb(); println(p);
\* var q = true or bomb(); println(q);
\* var r = true and bomb(); println(r);
\* var u = false or bomb(); println(u);
\* var hit = false; true or (hit = true); false and (hit = true); println(hit);
ProgLogic ==
    <<Fun("bomb", <<>>, <<Println(S("boom")), Ret(TrueLit)>>),
      VarS("p", new_logical(FalseLit, Tok("And"), CallE(V("bomb"), <<>>))),
      Println(V("p")),
      VarS("q", new_logical(TrueLit, Tok("Or"), CallE(V("bomb"), <<>>))),
      Println(V("q")),
      VarS("r", new_logical(TrueLit, Tok("And"), CallE(V("bomb"), <<>>))),
      Println(V("r")),
      VarS("u", new_logical(FalseLit, Tok("Or"), CallE(V("bomb"), <<>>))),
      Println(V("u")),
      VarS("hit", FalseLit),
      ExprS(new_logical(TrueLit, Tok("Or"), new_grouping(Asg("hit", TrueLit)))),
      ExprS(new_logical(FalseLit, Tok("And"), new_grouping(Asg("hit", TrueLit)))),
      Println(V("hit"))>>

\* fun say(s) { println(s); return s; }
\* fun second(a, b) { println("body"); return b; }
\* fun pick() { println("callee"); return second; }
\* println(pick()(say("a1"), say("a2")));
\* { say("s1"); say("s2"); }
\* say("s3");
ProgOrder ==
    <<Fun("say", <<"s">>, <<Println(V("s")), Ret(V("s"))>>),
      Fun("second", <<"a", "b">>, <<Println(S("body")), Ret(V("b"))>>),
      Fun("pick", <<>>, <<Println(S("callee")), Ret(V("second"))>>),
      Println(CallE(CallE(V("pick"), <<>>),
                    <<CallE(V("say"), <<S("a1")>>), CallE(V("say"), <<S("a2")>>)>>)),
      new_block(<<ExprS(CallE(V("say"), <<S("s1")>>)), ExprS(CallE(V("say"), <<S("s2")>>))>>),
      ExprS(CallE(V("say"), <<S("s3")>>))>>

\* var notfn = 1; fun one(a) { println("ran"); }
\* notfn(); "str"(1); one(); one(1, 2); println(); println(1, 2); test0(1); nil();
\* one(1);
ProgBadCall ==
    <<VarS("notfn", N(1)),
      Fun("one", <<"a">>, <<Println(S("ran"))>>),
      ExprS(CallE(V("notfn"), <<>>)),
      ExprS(CallE(S("str"), <<N(1)>>)),
      ExprS(CallE(V("one"), <<>>)),
      ExprS(CallE(V("one"), <<N(1), N(2)>>)),
      ExprS(CallE(V("println"), <<>>)),
      ExprS(CallE(V("println"), <<N(1), N(2)>>)),
      ExprS(CallE(V("test0"), <<N(1)>>)),
      ExprS(CallE(new_literal(Tok("Nil")), <<>>)),
      ExprS(CallE(V("one"), <<N(1)>>))>>

\* var a1 = 1; { var a2 = 2; { a1 = 10; a2 = 20; a3 = 30; println(a1); println(a2); } }
\* var a1 = 5; var a1 = 5; println(a1); a4 = 1;
ProgAssign ==
    <<VarS("a1", N(1)),
      new_block(<<VarS("a2", N(2)),
                  new_block(<<ExprS(Asg("a1", N(10))),
                              ExprS(Asg("a2", N(20))),
                              ExprS(Asg("a3", N(30))),
                              Println(V("a1")),
                              Println(V("a2"))>>)>>),
      VarS("a1", N(5)),
      VarS("a1", N(5)),
      Println(V("a1")),
      ExprS(Asg("a4", N(1)))>>

\* fun lossy() { undefined; return 1; } println(lossy()); println("next");
ProgErrorThenReturn ==
    <<Fun("lossy", <<>>, <<ExprS(V("undefined")), Ret(N(1))>>),
      Println(CallE(V("lossy"), <<>>)),
      Println(S("next"))>>

\* fun failing() { undefined; println("rest"); } println(failing());
ProgErrorOnly ==
    <<Fun("failing", <<>>, <<ExprS(V("undefined")), Println(S("rest"))>>),
      Println(CallE(V("failing"), <<>>))>>

\* var r1 = 1; var r1 = undefined; println(r1); var r2 = undefined;
\* { undefined; println("in"); var r3 = undefined; println(r3); println("in2"); }
\* println("end"); println(r2);
ProgRecover ==
    <<VarS("r1", N(1)),
      VarS("r1", V("undefined")),
      Println(V("r1")),
      VarS("r2", V("undefined")),
      new_block(<<ExprS(V("undefined")),
                  Println(S("in")),
                  VarS("r3", V("undefined")),
                  Println(V("r3")),
                  Println(S("in2"))>>),
      Println(S("end")),
      Println(V("r2"))>>

\* println(E == E); println(E != E); for E in 1, "a", true, nil, clock
ProgEquality ==
    <<Println(Bin(N(1), "EqualEqual", N(1))),
      Println(Bin(N(1), "BangEqual", N(1))),
      Println(Bin(S("a"), "EqualEqual", S("a"))),
      Println(Bin(S("a"), "BangEqual", S("a"))),
      Println(Bin(TrueLit, "EqualEqual", TrueLit)),
      Println(Bin(TrueLit, "BangEqual", TrueLit)),
      Println(Bin(new_literal(Tok("Nil")), "EqualEqual", new_literal(Tok("Nil")))),
      Println(Bin(new_literal(Tok("Nil")), "BangEqual", new_literal(Tok("Nil")))),
      Println(Bin(V("clock"), "EqualEqual", V("clock"))),
      Println(Bin(V("clock"), "BangEqual", V("clock")))>>

\* println(!0); println(!1); println(!2); println(!(0 - 3)); println(!(2 - 2));
ProgBang ==
    <<Println(new_unary(Tok("Bang"), N(0))),
      Println(new_unary(Tok("Bang"), N(1))),
      Println(new_unary(Tok("Bang"), N(2))),
      Println(new_unary(Tok("Bang"), new_grouping(Bin(N(0), "Minus", N(3))))),
      Println(new_unary(Tok("Bang"), new_grouping(Bin(N(2), "Minus", N(2)))))>>

ProgramNames ==
    {"scope", "counter", "return", "early", "return_then_error", "block", "logic",
     "order", "badcall", "assign", "error_then_return", "error_only",
     "recover", "equality", "bang"}

Program(name) ==
    CASE name = "scope" -> ProgScope
      [] name = "counter" -> ProgCounter
      [] name = "return" -> ProgReturn
      [] name = "early" -> ProgEarly
      [] name = "return_then_error" -> ProgReturnThenError
      [] name = "block" -> ProgBlock
      [] name = "logic" -> ProgLogic
      [] name = "order" -> ProgOrder
      [] name = "badcall" -> ProgBadCall
      [] name = "assign" -> ProgAssign
      [] name = "error_then_return" -> ProgErrorThenReturn
      [] name = "error_only" -> ProgErrorOnly
      [] name = "recover" -> ProgRecover
      [] name = "equality" -> ProgEquality
      [] name = "bang" -> ProgBang

(***************************************************************************)
(* The driver: Interpreter::interpret, one pass per submitted program      *)
(***************************************************************************)
Init ==
    /\ heap = Interpreter_new
    /\ pending = <<>>
    /\ out = <<>>
    /\ diags = <<>>
    /\ trace = <<>>
    /\ status = "ready"
    /\ passes = 0
    /\ prog = "none"
    /\ lastOp = NoOp
    /\ source = <<>>
    /\ read_buffer = <<>>
    /\ entered = NoLines

\* interpret is entered with a program that lexes and parses: its statements
\* are what the loop over stmts will evaluate
Interpret(name) ==
    /\ status = "ready"
    /\ pending = <<>>
    /\ passes < MaxPasses
    /\ pending' = Program(name)
    /\ prog' = name
    /\ passes' = passes + 1
    /\ out' = <<>>
    /\ diags' = <<>>
    /\ trace' = <<>>
    /\ UNCHANGED <<heap, status, lastOp, source, read_buffer, entered>>

\* one iteration of `for stmt in stmts`: a visitor on the global environment
\* evaluates the statement and the driver prints its diagnostics
EvalStmt ==
    /\ status = "ready"
    /\ pending # <<>>
    /\ LET w0 == [World(heap) EXCEPT !.out = out, !.trace = trace]
           report(visitor) ==
             LET r == StmtEvaluator_get_result(visitor)
             IN /\ heap' = visitor.w.heap
                /\ out' = visitor.w.out
                /\ trace' = visitor.w.trace
                /\ status' = CASE visitor.w.halt = "" -> "ready"
                               [] visitor.w.halt = "panic" -> "panicked"
                               [] OTHER -> "cut"
                /\ diags' = IF visitor.w.halt = "" /\ ~r.ok
                            THEN Append(diags, r.errors) ELSE diags
                /\ pending' = IF visitor.w.halt = "" THEN Tail(pending) ELSE <<>>
       IN report(Stmt_accept(Head(pending), StmtEvaluator_new(GlobalEnv, w0)))
    /\ UNCHANGED <<passes, prog, lastOp, source, read_buffer, entered>>

Next ==
    \/ \E name \in ProgramNames : Interpret(name)
    \/ EvalStmt

Spec == Init /\ [][Next]_vars

(***************************************************************************)
(* The lexer and the parser on their own: a source text is drawn from      *)
(* bounded sets of words, tokenized, and its tokens parsed.  lastOp holds  *)
(* what the phase applied last returned.                                   *)
(***************************************************************************)
MaxOps == 2         \* binary operators in a generated expression statement
MaxWords == 3       \* words in a generated statement prefix

\* how a word is spelled in the source text
Spelling(word) ==
    CASE word = "if" -> <<"i", "f">>
      [] word = "while" -> <<"w", "h", "i", "l", "e">>
      [] word = "for" -> <<"f", "o", "r">>
      [] word = "var" -> <<"v", "a", "r">>
      [] word = "return" -> <<"r", "e", "t", "u", "r", "n">>
      [] word = "print" -> <<"p", "r", "i", "n", "t">>
      [] word = "and" -> <<"a", "n", "d">>
      [] word = "or" -> <<"o", "r">>
      [] word = ">=" -> <<">", "=">>
      [] word = "==" -> <<"=", "=">>
      [] word = "!=" -> <<"!", "=">>
      [] word = "//" -> <<"/", "/">>
      [] word = "fun" -> <<"f", "u", "n">>
      [] OTHER -> <<word>>

\* the source text of a sequence of words: a space follows each word
RECURSIVE SourceText(_)
SourceText(words) ==
    IF words = <<>> THEN <<>>
    ELSE Spelling(Head(words)) \o <<" ">> \o SourceText(Tail(words))

Numerals == <<"1", "2", "3", "4", "5">>
BinaryWords == {"*", "/", "+", "-", "<", ">=", "==", "!=", "and", "or", "="}
StatementWords == {"if", "while", "for", "var", "return", "print", "(", ";", "a", "{"}

\* operand operator operand ... operand ';' : the i-th operand is the
\* variable a or the numeral i
ExpressionInputs ==
    { [i \in 1..(2 * MaxOps + 2) |->
         IF i = 2 * MaxOps + 2 THEN ";"
         ELSE IF i % 2 = 1 THEN os[(i + 1) \div 2] ELSE ops[i \div 2]] :
      os \in { f \in [1..(MaxOps + 1) -> {"a"} \cup {Numerals[i] : i \in 1..(MaxOps + 1)}] :
               \A i \in 1..(MaxOps + 1) : f[i] \in {"a", Numerals[i]} },
      ops \in [1..MaxOps -> BinaryWords] }

\* every sequence of at most MaxWords statement words
WordInputs == UNION { [1..n -> StatementWords] : n \in 0..MaxWords }

\* words for the lexer: unknown characters, the string delimiter, the start
\* and the end of a line comment, an identifier and a number
LexWords == {"@", "#", "\"", "//", "\n", "a", "1"}
LexInputs == UNION { [1..n -> LexWords] : n \in 1..MaxWords }

\* words for the loops of the parser: lists, groupings, blocks, variables
LoopWords == {"fun", "a", "(", ")", "{", "}", ",", ";", "var"}
\* texts that take a loop through several rounds
LoopTexts ==
    {<<"a", "(", "a", ",", "a", ")", ";">>,
     <<"fun", "a", "(", "a", ",", "a", ")", "{", "a", ";", "a", ";", "}">>,
     <<"(", "a", "a", "a", ")", ";">>,
     <<"var", "a", ";", "var", "a", ";", "}", "a", ";">>,
     <<"var", "a", ";", "a", ";", "a", ";">>,
     <<"{", "var", "a", ";", "a", ";", "}", "a", ";">>,
     <<")", "a", "a", ";", ")", ";">>,
     <<"a", "(", "(", "a", ",", "{", ";", "a", ";">>}
LoopInputs == LoopTexts \cup UNION { [1..n -> LoopWords] : n \in 1..MaxWords }

ParseInit ==
    /\ heap = Interpreter_new
    /\ pending = <<>>
    /\ out = <<>>
    /\ diags = <<>>
    /\ trace = <<>>
    /\ status = "ready"
    /\ passes = 0
    /\ prog = "none"
    /\ lastOp = NoOp
    /\ source \in ExpressionInputs \cup WordInputs \cup LexInputs \cup LoopInputs
    /\ read_buffer = <<>>
    /\ entered = NoLines

\* Lexer::new(&input).tokenize()
Tokenize ==
    /\ status = "ready"
    /\ lastOp = NoOp
    /\ lastOp' = [op |-> "tokenize", lexed |-> tokenize(SourceText(source))]
    /\ UNCHANGED <<heap, pending, out, diags, trace, status, passes, prog, source, read_buffer, entered>>

\* Parser::new(tokens).parse(): an unwrap() on None aborts the process
ParseTokens ==
    /\ status = "ready"
    /\ lastOp.op = "tokenize"
    /\ lastOp.lexed.ok
    /\ LET finish(parsed) ==
             /\ lastOp' = [op |-> "parse", tokens |-> lastOp.lexed.tokens,
                           parsed |-> parsed]
             /\ status' = IF parsed.panic THEN "panicked" ELSE "ready"
       IN finish(parse(lastOp.lexed.tokens))
    /\ UNCHANGED <<heap, pending, out, diags, trace, passes, prog, source, read_buffer, entered>>

ParseNext == Tokenize \/ ParseTokens

ParseSpec == ParseInit /\ [][ParseNext]_vars

\* ---------------------------------------------------------------------------
\* The argument and parameter loops near the arity cap.  A loop is entered
\* at its head with the items collected so far: the state after `collected`
\* rounds of the loop, each of which took one item and the comma behind it.
\* ---------------------------------------------------------------------------

MaxDirect == 3      \* items of a list that is lexed and parsed as a whole
MaxResume == 6      \* items still to read when a loop is entered at its head

\* n items separated by commas
Listed(item, n) ==
    IF n = 0 THEN <<>>
    ELSE [i \in 1..(2 * n - 1) |-> IF i % 2 = 1 THEN item ELSE ","]

\* a ( 1 , ... , 1 ) ;  with n arguments
CallWords(n) == <<"a", "(">> \o Listed("1", n) \o <<")", ";">>
\* fun a ( a , ... , a ) { }  with n parameters
FunWords(n) == <<"fun", "a", "(">> \o Listed("a", n) \o <<")", "{", "}">>
\* fun ( a , ... , a ) { } ;  with n parameters
FunExprWords(n) == <<"fun", "(">> \o Listed("a", n) \o <<")", "{", "}", ";">>

ArityForms == {"call", "fun", "fun_expr"}
ArityWords(form, n) ==
    CASE form = "call" -> CallWords(n)
      [] form = "fun" -> FunWords(n)
      [] form = "fun_expr" -> FunExprWords(n)

\* the column at which SourceText puts the i-th word: only the first word
\* of these texts has more than one character
WordColumn(words, i) ==
    IF i = 1 THEN 0 ELSE Len(Spelling(words[1])) + 1 + 2 * (i - 2)

\* the token of a word standing at a column of the first line
WordToken(word, column) ==
    LET moved(token) ==
          [token EXCEPT !.m_col_start = @ + column, !.m_col_end = @ + column]
    IN moved(tokenize(Spelling(word)).tokens[1])

\* the tokens of SourceText(words), without running the lexer over the text
ArityTokens(words) ==
    [i \in 1..(Len(words) + 1) |->
       IF i <= Len(words) THEN WordToken(words[i], WordColumn(words, i))
       ELSE tokenize(<<>>).tokens[1]]

\* the index of the '(' that opens the list
ListOpen(form) == IF form = "fun" THEN 3 ELSE 2

\* the parser at the head of the loop with `collected` items taken: the
\* current token is the '(' or the comma taken last
LoopParser(form, tokens, collected) ==
    [Parser_new(tokens) EXCEPT
       !.m_next = ListOpen(form) + 2 * collected + 1,
       !.m_current = Some(tokens[ListOpen(form) + 2 * collected]),
       !.m_previous = Some(tokens[ListOpen(form) + 2 * collected - 1])]

\* the items the loop holds at that point
LoopItems(form, tokens, collected) ==
    [j \in 1..collected |->
       IF form = "call" THEN new_literal(tokens[ListOpen(form) + 2 * j - 1])
       ELSE tokens[ListOpen(form) + 2 * j - 1]]

\* the loop of finish_call or of the function declaration, from its head
ResumeFrom(form, tokens, collected) ==
    IF form = "call"
    THEN arguments_loop(LoopParser(form, tokens, collected),
                        LoopItems(form, tokens, collected))
    ELSE parameters_loop(LoopParser(form, tokens, collected),
                         LoopItems(form, tokens, collected), form = "fun_expr")

\* the numbers of arguments and parameters around the cap
ArityCounts == (MaxArity - 1)..(MaxArity + 2)

\* a list that is parsed as a whole, or a loop head the parser reaches: a
\* comma follows every collected item, and the cap stops the loop before
\* more than MaxArity items are collected
ArityCases ==
    { c \in [form : ArityForms, total : (0..MaxDirect) \cup ArityCounts,
             collected : 0..MaxArity] :
        \/ c.collected = 0 /\ c.total <= MaxDirect
        \/ c.collected < c.total /\ c.total - c.collected <= MaxResume }

ArityInit ==
    /\ heap = Interpreter_new
    /\ pending = <<>>
    /\ out = <<>>
    /\ diags = <<>>
    /\ trace = <<>>
    /\ status = "ready"
    /\ passes = 0
    /\ prog = "none"
    /\ lastOp = NoOp
    /\ source \in ArityCases
    /\ read_buffer = <<>>
    /\ entered = NoLines

\* the loop runs from its head: it is entered only when the next token is
\* not ')'
ResumeLoop ==
    /\ lastOp = NoOp
    /\ LET run(tokens) ==
             /\ ~match_token(LoopParser(source.form, tokens, source.collected),
                             {"RightParen"})
             /\ lastOp' = [op |-> "loop",
                           r |-> ResumeFrom(source.form, tokens, source.collected)]
       IN run(ArityTokens(ArityWords(source.form, source.total)))
    /\ UNCHANGED <<heap, pending, out, diags, trace, status, passes, prog, source, read_buffer, entered>>

\* Lexer::new(&input).tokenize() and Parser::new(tokens).parse() on a short
\* list
ParseList ==
    /\ lastOp = NoOp
    /\ source.collected = 0
    /\ source.total <= MaxDirect
    /\ LET run(lexed) ==
             lastOp' = [op |-> "list", tokens |-> lexed.tokens,
                        parsed |-> parse(lexed.tokens)]
       IN run(tokenize(SourceText(ArityWords(source.form, source.total))))
    /\ UNCHANGED <<heap, pending, out, diags, trace, status, passes, prog, source, read_buffer, entered>>

ArityNext == ResumeLoop \/ ParseList

AritySpec == ArityInit /\ [][ArityNext]_vars

(***************************************************************************)
(* The whole of Interpreter::interpret on source texts: lexer, parser and  *)
(* the loop over the statements.  A text is the sequence of its characters. *)
(***************************************************************************)
\* println(1); @
SrcLexError ==
    <<"p", "r", "i", "n", "t", "l", "n", "(", "1", ")", ";", " ", "@">>

\* println(1); var ;
SrcParseError ==
    <<"p", "r", "i", "n", "t", "l", "n", "(", "1", ")", ";", " ", "v", "a",
      "r", " ", ";">>

\* var ; print(;
SrcVarPrint ==
    <<"v", "a", "r", " ", ";", " ", "p", "r", "i", "n", "t", "(", ";">>

\* if a
SrcIfFirst ==
    <<"i", "f", " ", "a">>

\* fun g() { }
SrcDefine ==
    <<"f", "u", "n", " ", "g", "(", ")", " ", "{", " ", "}">>

\* println(1 + 2 * 3);
SrcPrecedence ==
    <<"p", "r", "i", "n", "t", "l", "n", "(", "1", " ", "+", " ", "2", " ",
      "*", " ", "3", ")", ";">>

\* for (var i = 0; i < 2; i = i + 1) println(i);
SrcForVar ==
    <<"f", "o", "r", " ", "(", "v", "a", "r", " ", "i", " ", "=", " ", "0",
      ";", " ", "i", " ", "<", " ", "2", ";", " ", "i", " ", "=", " ", "i",
      " ", "+", " ", "1", ")", " ", "p", "r", "i", "n", "t", "l", "n", "(",
      "i", ")", ";">>

\* { var i = 0; while (i < 2) { println(i); i = i + 1; } }
SrcBlockVar ==
    <<"{", " ", "v", "a", "r", " ", "i", " ", "=", " ", "0", ";", " ", "w",
      "h", "i", "l", "e", " ", "(", "i", " ", "<", " ", "2", ")", " ", "{",
      " ", "p", "r", "i", "n", "t", "l", "n", "(", "i", ")", ";", " ", "i",
      " ", "=", " ", "i", " ", "+", " ", "1", ";", " ", "}", " ", "}">>

\* var i = 5; for (; i < 7; i = i + 1) println(i);
SrcForNoInit ==
    <<"v", "a", "r", " ", "i", " ", "=", " ", "5", ";", " ", "f", "o", "r",
      " ", "(", ";", " ", "i", " ", "<", " ", "7", ";", " ", "i", " ", "=",
      " ", "i", " ", "+", " ", "1", ")", " ", "p", "r", "i", "n", "t", "l",
      "n", "(", "i", ")", ";">>

\* var i = 5; { while (i < 7) { println(i); i = i + 1; } }
SrcBlockNoInit ==
    <<"v", "a", "r", " ", "i", " ", "=", " ", "5", ";", " ", "{", " ", "w",
      "h", "i", "l", "e", " ", "(", "i", " ", "<", " ", "7", ")", " ", "{",
      " ", "p", "r", "i", "n", "t", "l", "n", "(", "i", ")", ";", " ", "i",
      " ", "=", " ", "i", " ", "+", " ", "1", ";", " ", "}", " ", "}">>

\* var i = 0; { for (i = 5; i < 7; i = i + 1) println(i); } println(i);
SrcForExpr ==
    <<"v", "a", "r", " ", "i", " ", "=", " ", "0", ";", " ", "{", " ", "f",
      "o", "r", " ", "(", "i", " ", "=", " ", "5", ";", " ", "i", " ", "<",
      " ", "7", ";", " ", "i", " ", "=", " ", "i", " ", "+", " ", "1", ")",
      " ", "p", "r", "i", "n", "t", "l", "n", "(", "i", ")", ";", " ", "}",
      " ", "p", "r", "i", "n", "t", "l", "n", "(", "i", ")", ";">>

\* var i = 0; { { i = 5; while (i < 7) { println(i); i = i + 1; } } } println(i);
SrcBlockExpr ==
    <<"v", "a", "r", " ", "i", " ", "=", " ", "0", ";", " ", "{", " ", "{",
      " ", "i", " ", "=", " ", "5", ";", " ", "w", "h", "i", "l", "e", " ",
      "(", "i", " ", "<", " ", "7", ")", " ", "{", " ", "p", "r", "i", "n",
      "t", "l", "n", "(", "i", ")", ";", " ", "i", " ", "=", " ", "i", " ",
      "+", " ", "1", ";", " ", "}", " ", "}", " ", "}", " ", "p", "r", "i",
      "n", "t", "l", "n", "(", "i", ")", ";">>

\* print(1);
SrcPrintCall ==
    <<"p", "r", "i", "n", "t", "(", "1", ")", ";">>

\* for (var i = 0; ; i = i + 1) println(i);
SrcForNoCond ==
    <<"f", "o", "r", " ", "(", "v", "a", "r", " ", "i", " ", "=", " ", "0",
      ";", " ", ";", " ", "i", " ", "=", " ", "i", " ", "+", " ", "1", ")",
      " ", "p", "r", "i", "n", "t", "l", "n", "(", "i", ")", ";">>

\* println(!nil);
SrcBangNil ==
    <<"p", "r", "i", "n", "t", "l", "n", "(", "!", "n", "i", "l", ")", ";">>

\* println(false or 1);
SrcOrNumber ==
    <<"p", "r", "i", "n", "t", "l", "n", "(", "f", "a", "l", "s", "e", " ",
      "o", "r", " ", "1", ")", ";">>

\* println((1 2));
SrcGroupSkip ==
    <<"p", "r", "i", "n", "t", "l", "n", "(", "(", "1", " ", "2", ")", ")",
      ";">>

SourceNames ==
    {"lex_error", "parse_error", "var_print", "if_first",
     "define", "precedence", "for_var", "block_var",
     "for_noinit", "block_noinit", "for_expr", "block_expr",
     "print_call", "for_nocond", "bang_nil", "or_number",
     "group_skip"}

SourceCode(name) ==
    CASE name = "lex_error" -> SrcLexError
      [] name = "parse_error" -> SrcParseError
      [] name = "var_print" -> SrcVarPrint
      [] name = "if_first" -> SrcIfFirst
      [] name = "define" -> SrcDefine
      [] name = "precedence" -> SrcPrecedence
      [] name = "for_var" -> SrcForVar
      [] name = "block_var" -> SrcBlockVar
      [] name = "for_noinit" -> SrcForNoInit
      [] name = "block_noinit" -> SrcBlockNoInit
      [] name = "for_expr" -> SrcForExpr
      [] name = "block_expr" -> SrcBlockExpr
      [] name = "print_call" -> SrcPrintCall
      [] name = "for_nocond" -> SrcForNoCond
      [] name = "bang_nil" -> SrcBangNil
      [] name = "or_number" -> SrcOrNumber
      [] name = "group_skip" -> SrcGroupSkip

\* interpret up to the loop over the statements: a lexer that reports
\* errors ends the pass, so does a parser that reports errors, and the
\* statements of a parse that succeeded are what the loop will evaluate.
\* lastOp keeps what either phase reported and the environments before.
InterpretSource(name) ==
    /\ status = "ready"
    /\ pending = <<>>
    /\ passes < MaxPasses
    /\ LET to_evaluator(parsed) ==
             /\ pending' = IF parsed.ok THEN parsed.statements ELSE <<>>
             /\ status' = IF parsed.panic THEN "panicked" ELSE "ready"
             /\ lastOp' = [op |-> "interpret", lexer |-> <<>>,
                           parser |-> parsed.pushed, pre |-> heap]
           to_parser(lexed) ==
             IF lexed.ok THEN to_evaluator(parse(lexed.tokens))
             ELSE /\ pending' = <<>>
                  /\ status' = "ready"
                  /\ lastOp' = [op |-> "interpret", lexer |-> lexed.errors,
                                parser |-> <<>>, pre |-> heap]
       IN to_parser(tokenize(SourceCode(name)))
    /\ prog' = name
    /\ passes' = passes + 1
    /\ out' = <<>>
    /\ diags' = <<>>
    /\ trace' = <<>>
    /\ UNCHANGED <<heap, source, read_buffer, entered>>

SourceNext ==
    \/ \E name \in SourceNames : InterpretSource(name)
    \/ EvalStmt

SourceSpec == Init /\ [][SourceNext]_vars

\* ---------------------------------------------------------------------------
\* The REPL: App::run_repl_interpreter reads lines into read_buffer, appends
\* them to input and hands input to one Interpreter when a line ends the
\* submission.
\* ---------------------------------------------------------------------------

MaxLines == 4       \* lines read by the REPL

Whitespace == {" ", "\n", "\t", "\r"}

RECURSIVE trim_start(_)
trim_start(s) ==
    IF s # <<>> /\ Head(s) \in Whitespace THEN trim_start(Tail(s)) ELSE s

RECURSIVE trim_end(_)
trim_end(s) ==
    IF s # <<>> /\ s[Len(s)] \in Whitespace
    THEN trim_end(SubSeq(s, 1, Len(s) - 1)) ELSE s

\* str::trim
trim(s) == trim_end(trim_start(s))

\* the lines a user enters, without their line end
\* q
LineQ ==
    <<"q">>

\* quit
LineQuit ==
    <<"q", "u", "i", "t">>

\* u;
LineUndefined ==
    <<"u", ";">>

\* fun g(){}
LineDefine ==
    <<"f", "u", "n", " ", "g", "(", ")", "{", "}">>

\* @
LineLexError ==
    <<"@">>

\* (;
LineParseError ==
    <<"(", ";">>

LineEmpty == <<>>

ReplLines ==
    {LineEmpty, LineQ, LineQuit, LineUndefined, LineDefine, LineLexError,
     LineParseError}

\* "q" | "quit"
Quits == {LineQ, LineQuit}
\* "" | "q" | "quit"
Terminators == {LineEmpty} \cup Quits

\* a front end that hands the statements parsed before an error to the
\* evaluator
interpret_phases_partial(input) ==
    LET to_evaluator(tokens, parsed) ==
          [pending |-> IF parsed.ok THEN parsed.statements
                       ELSE parse_loop(Parser_new(tokens), <<>>, 0).statements,
           panic |-> parsed.panic, lexer |-> <<>>, parser |-> parsed.pushed]
        to_parser(lexed) ==
          IF lexed.ok THEN to_evaluator(lexed.tokens, parse(lexed.tokens))
          ELSE [pending |-> <<>>, panic |-> FALSE, lexer |-> lexed.errors,
                parser |-> <<>>]
    IN to_parser(tokenize(input))

\* the lexer and parser phases of Interpreter::interpret: the statements
\* handed to the evaluator and the diagnostics printed
interpret_phases(input) ==
    LET to_evaluator(parsed) ==
          [pending |-> IF parsed.ok THEN parsed.statements ELSE <<>>,
           panic |-> parsed.panic, lexer |-> <<>>, parser |-> parsed.pushed]
        to_parser(lexed) ==
          IF lexed.ok THEN to_evaluator(parse(lexed.tokens))
          ELSE [pending |-> <<>>, panic |-> FALSE, lexer |-> lexed.errors,
                parser |-> <<>>]
    IN to_parser(tokenize(input))

\* one round of the inner loop: read_line appends the line and its line end
\* to read_buffer, read_buffer is pushed onto input, and read_buffer is
\* cleared only when the loop goes on.  When the loop breaks, input is either
\* a bare q or quit, which ends the REPL, or it is interpreted and cleared.
ReadLine(line) ==
    /\ status = "ready"
    /\ pending = <<>>
    /\ entered.count < MaxLines
    /\ LET read(buffer, text) ==
             IF trim(buffer) \notin Terminators
             THEN /\ source' = text
                  /\ read_buffer' = <<>>
                  /\ UNCHANGED <<heap, pending, out, diags, trace, status, passes,
                                 prog, lastOp>>
             ELSE IF trim(text) \in Quits
             THEN /\ status' = "exited"
                  /\ source' = text
                  /\ read_buffer' = buffer
                  /\ lastOp' = [op |-> "exit", at |-> entered.count + 1]
                  /\ UNCHANGED <<heap, pending, out, diags, trace, passes, prog>>
             ELSE LET run(phases) ==
                        /\ pending' = phases.pending
                        /\ status' = IF phases.panic THEN "panicked" ELSE "ready"
                        /\ lastOp' = [op |-> "interpret", lexer |-> phases.lexer,
                                      parser |-> phases.parser, pre |-> heap,
                                      text |-> trim(text),
                                      at |-> entered.count + 1]
                  IN /\ run(interpret_phases(trim(text)))
                     /\ source' = <<>>
                     /\ read_buffer' = buffer
                     /\ prog' = "repl"
                     /\ passes' = passes + 1
                     /\ out' = <<>>
                     /\ diags' = <<>>
                     /\ trace' = <<>>
                     /\ UNCHANGED heap
       IN read(read_buffer \o line \o <<"\n">>,
               source \o read_buffer \o line \o <<"\n">>)
    /\ entered' = [count |-> entered.count + 1,
                   group |-> IF entered.closed THEN <<line>>
                             ELSE Append(entered.group, line),
                   closed |-> line \in Terminators]

ReplNext ==
    \/ \E line \in ReplLines : ReadLine(line)
    \/ EvalStmt

ReplSpec == Init /\ [][ReplNext]_vars

(***************************************************************************)
(* The Environment operations on their own: scopes are created and the     *)
(* operations applied with arbitrary names and values.  lastOp records the *)
(* operation applied last and the environments before it.                  *)
(***************************************************************************)
EnvNames == {"x", "y"}
EnvValues == {Number(1), Number(2)}

EnvInit ==
    /\ heap = Environment_new(<<>>)
    /\ pending = <<>>
    /\ out = <<>>
    /\ diags = <<>>
    /\ trace = <<>>
    /\ status = "ready"
    /\ passes = 0
    /\ prog = "none"
    /\ lastOp = NoOp
    /\ source = <<>>
    /\ read_buffer = <<>>
    /\ entered = NoLines

EnvNewScope(parent) ==
    /\ Len(heap) < MaxScopes
    /\ heap' = new_scope(heap, parent)
    /\ lastOp' = [op |-> "new_scope", env |-> Len(heap) + 1, pre |-> heap]
    /\ UNCHANGED <<pending, out, diags, trace, status, passes, prog, source, read_buffer, entered>>

EnvDefine(e, name, value) ==
    /\ heap' = define(heap, e, name, value)
    /\ lastOp' = [op |-> "define", env |-> e, name |-> name, value |-> value,
                  ok |-> TRUE, pre |-> heap]
    /\ UNCHANGED <<pending, out, diags, trace, status, passes, prog, source, read_buffer, entered>>

EnvAssign(e, name, value) ==
    /\ heap' = assign(heap, e, name, value).heap
    /\ lastOp' = [op |-> "assign", env |-> e, name |-> name, value |-> value,
                  ok |-> assign(heap, e, name, value).ok, pre |-> heap]
    /\ UNCHANGED <<pending, out, diags, trace, status, passes, prog, source, read_buffer, entered>>

EnvNext ==
    \/ \E parent \in 1..Len(heap) : EnvNewScope(parent)
    \/ \E e \in 1..Len(heap), name \in EnvNames, value \in EnvValues : EnvDefine(e, name, value)
    \/ \E e \in 1..Len(heap), name \in EnvNames, value \in EnvValues : EnvAssign(e, name, value)

EnvSpec == EnvInit /\ [][EnvNext]_vars

\* the positions in the chain of e whose scope binds name
Holders(h, e, name) ==
    {i \in 1..Len(Chain(h, e)) : name \in DOMAIN h[Chain(h, e)[i]].m_scope}

\* the nearest scope of the chain of e that binds name
Nearest(h, e, name) ==
    Chain(h, e)[CHOOSE i \in Holders(h, e, name) : \A j \in Holders(h, e, name) : i <= j]

\* C5: assign updates the binding of the name in the nearest scope of the
\* chain that binds it and nothing else; bound nowhere in the chain, it fails
\* and changes no scope
C5_AssignNearest ==
    lastOp.op = "assign" =>
        IF Holders(lastOp.pre, lastOp.env, lastOp.name) = {}
        THEN ~lastOp.ok /\ heap = lastOp.pre
        ELSE /\ lastOp.ok
             /\ heap = [lastOp.pre EXCEPT
                          ![Nearest(lastOp.pre, lastOp.env, lastOp.name)].m_scope[lastOp.name]
                              = lastOp.value]

\* an inner scope without the name, its enclosing scope bound to another
\* value and updated; and a failed assign
C5_Witness ==
    /\ lastOp.op = "assign"
    /\ lastOp.ok
    /\ lastOp.name \notin DOMAIN lastOp.pre[lastOp.env].m_scope
    /\ lastOp.pre[lastOp.env].m_parent # 0
    /\ get(lastOp.pre, lastOp.env, lastOp.name) # Some(lastOp.value)
    /\ get(heap, lastOp.env, lastOp.name) = Some(lastOp.value)

C5_WitnessUndefined ==
    /\ lastOp.op = "assign"
    /\ ~lastOp.ok
    /\ lastOp.pre[lastOp.env].m_parent # 0

\* C6: define writes only the innermost scope: get from it returns the value,
\* every other scope and every other binding is as before, an ancestor still
\* sees its own binding, and defining the same value again changes nothing
C6_DefineInnermost ==
    lastOp.op = "define" =>
        /\ get(heap, lastOp.env, lastOp.name) = Some(lastOp.value)
        /\ \A i \in 1..Len(heap) : i # lastOp.env => heap[i] = lastOp.pre[i]
        /\ heap[lastOp.env].m_parent = lastOp.pre[lastOp.env].m_parent
        /\ DOMAIN heap[lastOp.env].m_scope =
              DOMAIN lastOp.pre[lastOp.env].m_scope \cup {lastOp.name}
        /\ \A n \in DOMAIN lastOp.pre[lastOp.env].m_scope :
              n # lastOp.name => heap[lastOp.env].m_scope[n] = lastOp.pre[lastOp.env].m_scope[n]
        /\ \A i \in 2..Len(Chain(heap, lastOp.env)) :
              get(heap, Chain(heap, lastOp.env)[i], lastOp.name)
                  = get(lastOp.pre, Chain(heap, lastOp.env)[i], lastOp.name)
        /\ define(heap, lastOp.env, lastOp.name, lastOp.value) = heap

\* a define that overwrites a binding of its own scope and shadows a
\* different binding of the enclosing scope
C6_Witness ==
    /\ lastOp.op = "define"
    /\ lastOp.pre[lastOp.env].m_parent # 0
    /\ lastOp.name \in DOMAIN lastOp.pre[lastOp.env].m_scope
    /\ lastOp.pre[lastOp.env].m_scope[lastOp.name] # lastOp.value
    /\ get(heap, heap[lastOp.env].m_parent, lastOp.name) \notin {None, Some(lastOp.value)}

(***************************************************************************)
(* Properties of the evaluator, checked under Spec                         *)
(***************************************************************************)
Texts(o) == [i \in 1..Len(o) |-> o[i].text]

IsPrefix(a, b) == Len(a) <= Len(b) /\ \A i \in 1..Len(a) : a[i] = b[i]

\* the pass of the named program has evaluated its last statement
Done(name) == prog = name /\ pending = <<>> /\ status = "ready"

\* the program wrote exactly `expected`, in that order and nothing else before
Writes(name, expected) ==
    prog = name => /\ IsPrefix(Texts(out), expected)
                   /\ Done(name) => Texts(out) = expected

EventsOf(kinds) == {i \in 1..Len(trace) : trace[i].ev \in kinds}

\* the exit event of the call event at position i
ExitOf(i) ==
    CHOOSE j \in EventsOf({"exit"}) : j > i /\ trace[j].inner = trace[i].inner

\* C1: a call of a user callable runs in a fresh scope whose parent is the
\* environment captured at definition, not the calling environment; a free
\* variable of the body resolves through the definition chain although the
\* calling scope binds the same name; the parameter bindings are seen neither
\* from the calling scope nor from the captured scope after the call
C1_LexicalScope ==
    /\ \A i \in EventsOf({"call"}) :
          /\ heap[trace[i].inner].m_parent = trace[i].closure
          /\ trace[i - 1].ev = "scope" /\ trace[i - 1].handle = trace[i].inner
          /\ \A j \in EventsOf({"scope"}) : j < i - 1 => trace[j].handle < trace[i].inner
          /\ trace[i].inner \notin {trace[i].caller, trace[i].closure}
          /\ trace[ExitOf(i)].sees = trace[i].sees
    /\ Writes("scope", <<String("global"), Number(2), String("mk")>>)
    /\ Done("scope") => get(heap, GlobalEnv, "a") = None

\* show() was called from a scope binding x to "local", captured the scope
\* binding x to "global", and wrote "global"
C1_Witness ==
    /\ Done("scope")
    /\ \E i \in EventsOf({"call"}) :
          /\ trace[i].caller # trace[i].closure
          /\ get(heap, trace[i].caller, "x") = Some(String("local"))
          /\ get(heap, trace[i].closure, "x") = Some(String("global"))
    /\ \E i \in EventsOf({"call"}) :
          /\ Len(trace[i].params) = 1
          /\ get(heap, trace[i].inner, "a") = Some(Number(2))
          /\ get(heap, trace[i].caller, "a") = None
    /\ Texts(out) = <<String("global"), Number(2), String("mk")>>

\* C2: the captured environment is shared: the counter of makeCounter yields
\* 1, 2, 3, a second counter starts at 1 and leaves the first at 3, and an
\* assignment made by one callable is seen by another capturing the same scope
C2_SharedClosure ==
    Writes("counter", <<Number(1), Number(2), Number(3), Number(1), Number(4), Number(1)>>)

C2_Witness ==
    /\ Done("counter")
    /\ Len(out) = 6
    /\ out[3].text = Number(3)
    /\ out[6].text = Number(1)

\* C3: a call yields Nil when its body raised no signal and the payload of a
\* return signal whenever the body raised one; the return signal ends at that
\* call: it reaches neither the caller's diagnostics nor the driver's
C3_CallYieldsReturn ==
    /\ \A i \in EventsOf({"exit"}) :
          /\ trace[i].signals = <<>> => trace[i].res.ok /\ trace[i].res.value = Nil
          /\ HasReturn(trace[i].signals) =>
                /\ ~trace[i].res.panic
                /\ trace[i].res.ok
                /\ \E k \in 1..Len(trace[i].signals) :
                      /\ trace[i].signals[k].sig = "Return"
                      /\ trace[i].res.value = trace[i].signals[k].value
    /\ \A i \in 1..Len(diags) : ~HasReturn(diags[i])

\* C4: after a return statement at call depth d no statement is evaluated and
\* no loop iteration is started at depth d before that call has returned
C4_ReturnStopsBody ==
    \A i \in EventsOf({"return"}) : \A j \in EventsOf({"stmt", "scope"}) :
        (i < j /\ trace[i].depth >= 1 /\ trace[j].depth = trace[i].depth) =>
            \E k \in EventsOf({"exit"}) : i < k /\ k < j /\ trace[k].depth = trace[i].depth

\* C7: a variable defined in a block, an if branch or a while body is not
\* visible from the enclosing scope afterwards, a binding of the same name in
\* the enclosing chain is unchanged, every while iteration starts without the
\* definitions of the previous one, and assignments to enclosing variables
\* persist
C7_BlockScope ==
    /\ \A j \in EventsOf({"scope"}) :
          /\ \A i \in EventsOf({"scope"}) : i < j => trace[i].handle < trace[j].handle
          /\ trace[j].by \in {"block", "if", "while"} =>
                \E i \in EventsOf({"stmt"}) :
                    /\ i < j
                    /\ trace[i].env = trace[j].parent
                    /\ trace[i].depth = trace[j].depth
                    /\ trace[i].k = CASE trace[j].by = "block" -> "Block"
                                      [] trace[j].by = "if" -> "If"
                                      [] OTHER -> "While"
    /\ Done("block") =>
          /\ \A n \in {"b", "t", "e", "w", "seen"} : get(heap, GlobalEnv, n) = None
          /\ get(heap, GlobalEnv, "k") = Some(String("outer"))
          /\ get(heap, GlobalEnv, "g") = Some(Number(1))
          /\ get(heap, GlobalEnv, "j") = Some(Number(2))
          /\ get(heap, GlobalEnv, "m") = Some(Number(2))
          /\ diags = <<<<Error(<<"Undefined variable">>), Error(<<"Undefined variable">>)>>>>
          /\ out = <<>>

C7_Witness ==
    /\ Done("block")
    /\ get(heap, GlobalEnv, "g") = Some(Number(1))
    /\ \E i \in 1..Len(heap) :
          /\ heap[i].m_parent = GlobalEnv
          /\ DOMAIN heap[i].m_scope = {"b", "k"}
    /\ Cardinality({i \in EventsOf({"scope"}) : trace[i].by = "while"}) = 4

\* C8: `and` with a false left operand and `or` with a true left operand yield
\* the left operand's value and never evaluate the right operand: neither its
\* call nor its assignment happens
C8_ShortCircuit ==
    /\ Writes("logic", <<Boolean(FALSE), Boolean(TRUE), String("boom"), Boolean(TRUE),
                         String("boom"), Boolean(TRUE), Boolean(FALSE)>>)
    /\ prog = "logic" => diags = <<>>
    /\ Done("logic") => /\ get(heap, GlobalEnv, "p") = Some(Boolean(FALSE))
                        /\ get(heap, GlobalEnv, "q") = Some(Boolean(TRUE))
                        /\ get(heap, GlobalEnv, "hit") = Some(Boolean(FALSE))

C8_Witness ==
    /\ Done("logic")
    /\ Len(out) = 7
    /\ out[1].text = Boolean(FALSE)
    /\ out[3].text = String("boom")

\* C9: a call evaluates its callee, then its arguments from left to right,
\* each once, and only then the body; statements run in source order
C9_EvaluationOrder ==
    Writes("order", <<String("callee"), String("a1"), String("a2"), String("body"),
                      String("a2"), String("s1"), String("s2"), String("s3")>>)

C9_Witness ==
    /\ Done("order")
    /\ Len(out) = 8
    /\ out[4].text = String("body")

\* C11: a call whose body raised an error never completes with a value: it
\* fails with the messages of the body's errors, whether or not the body also
\* raised a return signal, and it never aborts the interpreter
C11_ErrorsPropagate ==
    /\ \A i \in EventsOf({"exit"}) :
          (\E k \in 1..Len(trace[i].signals) : trace[i].signals[k].sig = "Error") =>
              /\ ~trace[i].res.panic
              /\ ~trace[i].res.ok
              /\ \A k \in 1..Len(trace[i].signals) :
                    trace[i].signals[k].sig = "Error" =>
                        \E m \in 1..Len(trace[i].res.errors) :
                            trace[i].res.errors[m] = trace[i].signals[k].msg
    /\ status # "panicked"

\* C13: a runtime error aborts only its statement: the statements after it,
\* at top level and in the same block, run in source order, and a var whose
\* initializer failed leaves its name as it was (r1 still 1, r2 and r3 not
\* defined)
C13_ErrorAbortsStatement ==
    /\ Writes("recover", <<Number(1), String("in"), String("in2"), String("end")>>)
    /\ (prog = "recover" /\ status = "ready" /\ Len(pending) \in 0..5) =>
          get(heap, GlobalEnv, "r1") = Some(Number(1))
    /\ prog = "recover" => status = "ready" /\ get(heap, GlobalEnv, "r2") = None
    /\ Done("recover") =>
          /\ \A i \in 1..Len(heap) : "r3" \notin DOMAIN heap[i].m_scope
          /\ diags = <<  <<Error(<<"Undefined variable">>)>>,
                         <<Error(<<"Undefined variable">>)>>,
                         <<Error(<<"Undefined variable">>),
                           Error(<<"Undefined variable">>),
                           Error(<<"Undefined variable">>)>>,
                         <<Error(<<"Undefined variable">>)>> >>

C13_Witness ==
    /\ Done("recover")
    /\ Len(diags) = 4
    /\ Len(diags[3]) = 3
    /\ Texts(out) = <<Number(1), String("in"), String("in2"), String("end")>>
    /\ get(heap, GlobalEnv, "r1") = Some(Number(1))

\* C18: for E a Number, a String, a Boolean, Nil and a Callable, E == E is
\* true and E != E is false, without a diagnostic
C18_SelfEquality ==
    /\ Writes("equality", <<Boolean(TRUE), Boolean(FALSE), Boolean(TRUE), Boolean(FALSE),
                            Boolean(TRUE), Boolean(FALSE), Boolean(TRUE), Boolean(FALSE),
                            Boolean(TRUE), Boolean(FALSE)>>)
    /\ prog = "equality" => diags = <<>>

\* C19 as stated: !n is true if and only if the Number n is 0
C19_BangNumberIffZero ==
    Writes("bang", <<Boolean(TRUE), Boolean(FALSE), Boolean(FALSE), Boolean(FALSE),
                     Boolean(TRUE)>>)

\* C19 amended: !n is true if and only if the Number n is not 0, and false
\* for 0
C19_BangNumberIffNonZero ==
    /\ Writes("bang", <<Boolean(FALSE), Boolean(TRUE), Boolean(TRUE), Boolean(TRUE),
                        Boolean(FALSE)>>)
    /\ prog = "bang" => diags = <<>>

C19_Witness ==
    /\ Done("bang")
    /\ Len(out) = 5
    /\ out[1].text = Boolean(FALSE)
    /\ out[4].text = Boolean(TRUE)

\* C20: after construction the global scope binds exactly clock, sleep_secs,
\* sleep_millis, print, println, read_line, parse and dbg, to native callables
\* of arity 0, 1, 1, 1, 1, 0, 1 and 2
C20_Builtins ==
    passes = 0 =>
        /\ DOMAIN heap[GlobalEnv].m_scope =
              {"clock", "sleep_secs", "sleep_millis", "print", "println", "read_line",
               "parse", "dbg"}
        /\ \A n \in DOMAIN heap[GlobalEnv].m_scope :
              /\ heap[GlobalEnv].m_scope[n].t = "Callable"
              /\ heap[GlobalEnv].m_scope[n].kind = "NativeFunction"
              /\ heap[GlobalEnv].m_scope[n].arity =
                    CASE n \in {"clock", "read_line"} -> 0
                      [] n = "dbg" -> 2
                      [] OTHER -> 1

\* the arity the global scope registers for a native function
NativeArity(fn) == get(Interpreter_new, GlobalEnv, fn)[1].arity

\* C10: calling a non-callable, or a callable with a number of arguments
\* other than its arity, yields a diagnostic and invokes nothing: no scope is
\* created, no body and no native function runs, and every invocation hands
\* over exactly `arity` arguments
C10_CallChecked ==
    /\ \A i \in EventsOf({"call"}) : trace[i].nargs = Len(trace[i].params)
    /\ \A i \in EventsOf({"native"}) : Len(trace[i].args) = NativeArity(trace[i].fn)
    /\ (prog = "badcall" /\ status = "ready" /\ Len(pending) \in 1..9) =>
          /\ EventsOf({"scope", "call", "native"}) = {}
          /\ out = <<>>
          /\ Len(diags) = 9 - Len(pending)
    /\ Done("badcall") =>
          /\ Texts(out) = <<String("ran")>>
          /\ Len(diags) = 8
          /\ \A i \in 1..8 : diags[i] = <<Error(<<"Invalid call expression">>)>>

C10_Witness ==
    /\ Done("badcall")
    /\ Len(diags) = 8
    /\ Texts(out) = <<String("ran")>>

(***************************************************************************)
(* Claims on the parser, under ParseSpec                                   *)
(***************************************************************************)
\* the parse that just happened and what it returned
Parsed == lastOp.op = "parse"

\* the word an operator or operand token was spelled as
WordOf(token) ==
    CASE token.type = "Star" -> "*"
      [] token.type = "Slash" -> "/"
      [] token.type = "Plus" -> "+"
      [] token.type = "Minus" -> "-"
      [] token.type = "Less" -> "<"
      [] token.type = "GreaterEqual" -> ">="
      [] token.type = "EqualEqual" -> "=="
      [] token.type = "BangEqual" -> "!="
      [] token.type = "And" -> "and"
      [] token.type = "Or" -> "or"
      [] token.type = "Identifier" -> token.lexeme
      [] token.type = "Number" -> Numerals[token.n]
      [] OTHER -> "?"

\* how tightly the operator at the root of a tree binds in the grammar:
\* assignment loosest, then or, and, equality, comparison, term, factor;
\* everything else is an operand
Binding(node) ==
    CASE node.k = "Assign" -> 0
      [] node.k = "Logical" -> IF node.m_token.type = "Or" THEN 1 ELSE 2
      [] node.k = "Binary" ->
           (CASE node.m_token.type \in {"BangEqual", "EqualEqual"} -> 3
              [] node.m_token.type \in {"Greater", "GreaterEqual", "Less", "LessEqual"} -> 4
              [] node.m_token.type \in {"Minus", "Plus"} -> 5
              [] node.m_token.type \in {"Slash", "Star"} -> 6
              [] OTHER -> 7)
      [] OTHER -> 7

\* the words of the source a tree covers, in order
RECURSIVE Yield(_)
Yield(node) ==
    CASE node.k \in {"Binary", "Logical"} ->
           Yield(node.m_left) \o <<WordOf(node.m_token)>> \o Yield(node.m_right)
      [] node.k = "Assign" -> <<WordOf(node.m_token), "=">> \o Yield(node.m_value)
      [] node.k \in {"Literal", "Variable"} -> <<WordOf(node.m_token)>>
      [] OTHER -> <<"?">>

\* a tree as the grammar shapes it: the left operand of a binary operator
\* binds at least as tightly as the operator, the right operand strictly
\* tighter; the value of an assignment is any expression
RECURSIVE GrammarShaped(_)
GrammarShaped(node) ==
    CASE node.k \in {"Binary", "Logical"} ->
           /\ Binding(node.m_left) >= Binding(node)
           /\ Binding(node.m_right) > Binding(node)
           /\ GrammarShaped(node.m_left)
           /\ GrammarShaped(node.m_right)
      [] node.k = "Assign" -> GrammarShaped(node.m_value)
      [] OTHER -> TRUE

\* the source words form an expression of the grammar: whatever stands
\* left of a '=' is a chain of `a =`
Derivable(words) ==
    \A j \in 1..Len(words) :
        words[j] = "=" =>
            \A i \in 1..(j - 1) : words[i] = (IF i % 2 = 1 THEN "a" ELSE "=")

\* the value of numeral (('+' | '-' | '*') numeral)* by the grammar: a sum
\* of signed products, read from the words
RECURSIVE ProductEnd(_, _)
ProductEnd(words, i) ==
    IF i + 1 <= Len(words) /\ words[i + 1] = "*" THEN ProductEnd(words, i + 2) ELSE i
RECURSIVE ProductValue(_, _, _)
ProductValue(words, i, j) ==
    IF i > j THEN 1
    ELSE DigitValue(words[i]) * ProductValue(words, i + 2, j)
RECURSIVE SumValue(_, _, _)
SumValue(words, i, sign) ==
    LET j == ProductEnd(words, i)
        product == sign * ProductValue(words, i, j)
    IN IF j + 1 <= Len(words) /\ words[j + 1] \in {"+", "-"}
       THEN product + SumValue(words, j + 2, IF words[j + 1] = "+" THEN 1 ELSE -1)
       ELSE product

Arithmetic(words) ==
    \A i \in 1..Len(words) :
        IF i % 2 = 1 THEN words[i] # "a" ELSE words[i] \in {"+", "-", "*"}

\* the value the evaluator gives an expression in the global environment
Evaluate(e) ==
    Expr_accept(e, ExprEvaluator_new(GlobalEnv, World(heap))).m_result

\* the source of the running example, and the expression of its only statement
SourceExpression == SubSeq(source, 1, Len(source) - 1)
ParsedExpression == lastOp.parsed.statements[1].m_expression

\* C15: an expression statement `operand (operator operand)* ;` parses iff the
\* grammar derives it, and then into one tree that covers the words in
\* order, in which `*` `/` bind tighter than `+` `-`, these tighter than
\* comparison, equality, `and`, `or` and assignment in that order, operators
\* of one level associate to the left and assignment to the right; a tree
\* of `+` `-` `*` over numerals evaluates to the grammar's value
\* (`1 + 2 * 3` to 7).
C15_Precedence ==
    (Parsed /\ source \in ExpressionInputs) =>
        /\ lastOp.parsed.ok <=> Derivable(SourceExpression)
        /\ lastOp.parsed.ok =>
             /\ Len(lastOp.parsed.statements) = 1
             /\ lastOp.parsed.statements[1].k = "Expression"
             /\ Yield(ParsedExpression) = SourceExpression
             /\ GrammarShaped(ParsedExpression)
             /\ Arithmetic(SourceExpression) =>
                  Evaluate(ParsedExpression) = <<Number(SumValue(SourceExpression, 1, 1))>>

\* `1 + 2 * 3 ;` was parsed and its tree evaluates to 7
C15_Witness ==
    /\ Parsed
    /\ source = <<"1", "+", "2", "*", "3", ";">>
    /\ lastOp.parsed.ok
    /\ ParsedExpression.m_token.type = "Plus"
    /\ ParsedExpression.m_right.m_token.type = "Star"
    /\ Evaluate(ParsedExpression) = <<Number(7)>>

\* C16: parse returns Ok(statements) with no diagnostic and no failed
\* production, or Err with at least one diagnostic; it never aborts.
C16_ParserTotal ==
    Parsed =>
        /\ ~lastOp.parsed.panic
        /\ status # "panicked"
        /\ lastOp.parsed.ok => lastOp.parsed.failed = 0
        /\ ~lastOp.parsed.ok => lastOp.parsed.errors # <<>>

(***************************************************************************)
(* Claims on the phases of interpret, under SourceSpec                     *)
(***************************************************************************)
\* the pass that is running or ran last, and whether a phase reported
Interpreted == lastOp.op = "interpret"
Gated == Interpreted /\ (lastOp.lexer # <<>> \/ lastOp.parser # <<>>)

\* the names defined in the global environment beyond the builtins, with
\* their values
UserGlobals ==
    { <<n, heap[GlobalEnv].m_scope[n]>> :
        n \in (DOMAIN heap[GlobalEnv].m_scope) \ (DOMAIN Interpreter_new[GlobalEnv].m_scope) }

\* the numbers written to stdout, in order
NumbersWritten == [i \in 1..Len(out) |-> out[i].text.n]

\* C12: phases are gates.  A lexer that reports a diagnostic keeps the parser
\* from running, and a lexer or parser that reports one keeps the evaluator
\* from running: in that pass no statement is evaluated, nothing is
\* written, and every environment is as it was before the pass.
C12_PhasesAreGates ==
    /\ (Interpreted /\ lastOp.lexer # <<>>) => lastOp.parser = <<>>
    /\ Gated =>
         /\ pending = <<>>
         /\ trace = <<>>
         /\ out = <<>>
         /\ diags = <<>>
         /\ heap = lastOp.pre

\* a second pass stopped by the parser, after a first pass that defined a
\* global: the text started with a statement that parses
C12_Witness ==
    /\ passes = 2
    /\ prog = "parse_error"
    /\ Gated
    /\ lastOp.parser # <<>>
    /\ UserGlobals # {}

\* what `{ init; while (cond) { body; inc; } }` does for each for loop of
\* the sources: the numbers written and the globals left
ForPairs ==
    { [for |-> "for_var", block |-> "block_var", writes |-> <<0, 1>>, globals |-> {}],
      [for |-> "for_noinit", block |-> "block_noinit", writes |-> <<5, 6>>,
       globals |-> {<<"i", Number(7)>>}],
      [for |-> "for_expr", block |-> "block_expr", writes |-> <<5, 6, 7>>,
       globals |-> {<<"i", Number(7)>>}] }

\* C14: a for loop is observably the block `{ init; while (cond) { body;
\* inc; } }`: run on a fresh interpreter, the for form and the block form of
\* a pair both parse, write the same numbers and leave the same globals (a
\* var initializer leaves nothing behind, an expression initializer assigns
\* the existing variable).
C14_ForEquivalent ==
    \A pair \in ForPairs :
        (passes = 1 /\ (Done(pair.for) \/ Done(pair.block))) =>
            /\ lastOp.lexer = <<>>
            /\ lastOp.parser = <<>>
            /\ diags = <<>>
            /\ NumbersWritten = pair.writes
            /\ UserGlobals = pair.globals

\* C17: for the input `var ; print(;` the parser reports at least two
\* diagnostics, each with a line and a column, and nothing is evaluated.
C17_SeveralErrors ==
    (Interpreted /\ prog = "var_print") =>
        /\ Len(lastOp.parser) >= 2
        /\ \A i \in 1..Len(lastOp.parser) : lastOp.parser[i].has_pos
        /\ pending = <<>>
        /\ trace = <<>>
        /\ out = <<>>

\* C21: the program `print(1);` lexes and parses without a diagnostic and,
\* once evaluated, has invoked the native print exactly once, with the value
\* 1, and written it without a newline.
C21_PrintCallable ==
    (Interpreted /\ prog = "print_call") =>
        /\ lastOp.lexer = <<>>
        /\ lastOp.parser = <<>>
        /\ status = "ready"
        /\ Done("print_call") =>
             /\ diags = <<>>
             /\ out = <<Written(Number(1), FALSE)>>
             /\ Cardinality(EventsOf({"native"})) = 1
             /\ \A i \in EventsOf({"native"}) :
                    trace[i].fn = "print" /\ trace[i].args = <<Number(1)>>

(***************************************************************************)
(* Claims on the lexer, under ParseSpec                                    *)
(***************************************************************************)
Tokenized == lastOp.op = "tokenize"

\* where a reader of the words stands after word i: in code, in a string or
\* in a line comment
RECURSIVE ModeAfter(_, _)
ModeAfter(words, i) ==
    IF i = 0 THEN "code"
    ELSE LET before == ModeAfter(words, i - 1)
         IN CASE before = "code" /\ words[i] = "\"" -> "string"
              [] before = "code" /\ words[i] = "//" -> "comment"
              [] before = "string" /\ words[i] = "\"" -> "code"
              [] before = "comment" /\ words[i] = "\n" -> "code"
              [] OTHER -> before

\* the unknown characters that stand in code, and whether a string is open
\* at the end of the text
UnknownInCode(words) ==
    {i \in 1..Len(words) : words[i] \in {"@", "#"} /\ ModeAfter(words, i - 1) = "code"}
StringOpenAtEnd(words) == ModeAfter(words, Len(words)) = "string"

\* C24: tokenize returns Ok(tokens) with no Skip token and exactly one Eof,
\* the last element, or Err with a non-empty list; it is Ok exactly when the
\* text has nothing to report, and every unknown character in code has its
\* own diagnostic, besides the one of a string left open.
C24_LexerContract ==
    Tokenized =>
        /\ lastOp.lexed.ok <=>
              (UnknownInCode(source) = {} /\ ~StringOpenAtEnd(source))
        /\ lastOp.lexed.ok =>
              /\ \A i \in 1..Len(lastOp.lexed.tokens) :
                    /\ lastOp.lexed.tokens[i].type # "Skip"
                    /\ lastOp.lexed.tokens[i].type = "Eof" <=> i = Len(lastOp.lexed.tokens)
              /\ lastOp.lexed.tokens # <<>>
        /\ ~lastOp.lexed.ok =>
              /\ lastOp.lexed.errors # <<>>
              /\ Cardinality({i \in 1..Len(lastOp.lexed.errors) :
                                lastOp.lexed.errors[i].msg = "Unexpected character"})
                   = Cardinality(UnknownInCode(source))
              /\ Cardinality({i \in 1..Len(lastOp.lexed.errors) :
                                lastOp.lexed.errors[i].msg = "Unterminated string"})
                   = IF StringOpenAtEnd(source) THEN 1 ELSE 0

\* two unknown characters with an identifier between them: two diagnostics
C24_Witness ==
    /\ Tokenized
    /\ source = <<"@", "a", "#">>
    /\ ~lastOp.lexed.ok
    /\ Len(lastOp.lexed.errors) = 2

\* C25: a for loop without a condition loops as with the condition true: the
\* text parses, the body is evaluated again and again, and the pass never
\* comes to its end by the loop's condition.
C25_ForWithoutCondition ==
    (Interpreted /\ prog = "for_nocond") =>
        /\ lastOp.lexer = <<>>
        /\ lastOp.parser = <<>>
        /\ ~Done("for_nocond")

\* C26: `!v` for an operand v that is not a Number evaluates without a
\* diagnostic to the negation of v's truthiness; `println(!nil);` therefore
\* ends its pass without a diagnostic, having written true.
C26_BangOnAnyValue ==
    (Interpreted /\ prog = "bang_nil") =>
        /\ lastOp.lexer = <<>>
        /\ lastOp.parser = <<>>
        /\ Done("bang_nil") =>
             /\ diags = <<>>
             /\ out = <<Written(Boolean(TRUE), TRUE)>>

\* C27: when the left operand does not decide, a logical expression yields
\* the truthiness of its right operand whatever its kind;
\* `println(false or 1);` therefore ends its pass without a diagnostic,
\* having written true.
C27_LogicalCoercesRight ==
    (Interpreted /\ prog = "or_number") =>
        /\ lastOp.lexer = <<>>
        /\ lastOp.parser = <<>>
        /\ Done("or_number") =>
             /\ diags = <<>>
             /\ out = <<Written(Boolean(TRUE), TRUE)>>

\* C28: a parenthesised expression is accepted only as '(' expression ')':
\* in `println((1 2));` the token after the inner expression is not ')',
\* so the parser records a diagnostic and the pass evaluates nothing.
C28_GroupingStrict ==
    (Interpreted /\ prog = "group_skip") =>
        /\ lastOp.lexer = <<>>
        /\ lastOp.parser # <<>>
        /\ pending = <<>>
        /\ out = <<>>

\* the arguments or parameters of the one statement a list text parses to
ListParsed(form, stmt) ==
    CASE form = "call" -> stmt.m_expression.m_arguments
      [] form = "fun" -> stmt.m_params
      [] form = "fun_expr" -> stmt.m_expression.m_params

ArityMessage(form) ==
    IF form = "call" THEN "Cannot have more than 255 arguments"
    ELSE "Cannot have more than 255 parameters"

\* C29: the arity cap is exactly 255.  A list of up to 255 arguments or
\* parameters leaves its loop with all of them and without a diagnostic; with
\* 256 or more the loop records the one arity diagnostic and fails.  A short
\* list parsed as a whole from its text yields what the loop yields from
\* each of its heads, on the tokens the lexer produces for the text.
C29_ArityCap ==
    /\ lastOp.op = "loop" =>
         IF source.total <= 255
         THEN /\ lastOp.r.ok
              /\ Len(lastOp.r.node) = source.total
              /\ lastOp.r.p.m_errors = <<>>
         ELSE /\ ~lastOp.r.ok
              /\ ~lastOp.r.p.panic
              /\ Len(lastOp.r.p.m_errors) = 1
              /\ lastOp.r.p.m_errors[1].msg = ArityMessage(source.form)
    /\ lastOp.op = "list" =>
         /\ lastOp.tokens = ArityTokens(ArityWords(source.form, source.total))
         /\ lastOp.parsed.ok
         /\ Len(lastOp.parsed.statements) = 1
         /\ Len(ListParsed(source.form, lastOp.parsed.statements[1])) = source.total
         /\ \A collected \in 0..(source.total - 1) :
                LET same(r) ==
                      /\ r.ok
                      /\ r.node = ListParsed(source.form, lastOp.parsed.statements[1])
                IN same(ResumeFrom(source.form, lastOp.tokens, collected))

C29_Witness ==
    /\ lastOp.op = "loop"
    /\ source.form = "call"
    /\ source.total = MaxArity
    /\ source.collected = MaxArity - MaxResume
    /\ lastOp.r.ok
    /\ Len(lastOp.r.node) = MaxArity

Loops == {"parse", "sync", "block", "grouping", "arguments", "parameters", "var"}

\* C30: parse terminates, and its loops make progress: no loop goes into
\* its body twice at the same token position, the parser never moves back,
\* a failed declaration is followed at once by a sync, which takes a token
\* when one remains, and a parse that did not abort ends by leaving the
\* top-level loop.
C30_ParserProgress ==
    Parsed =>
        LET heads == lastOp.parsed.heads
            last == Len(lastOp.tokens)
        IN /\ \A i, j \in DOMAIN heads :
                 i < j =>
                   /\ heads[i][2] <= heads[j][2]
                   /\ (heads[i][1] = heads[j][1] /\ heads[i][1] \in Loops
                       /\ heads[i][3] /\ heads[j][3]) => heads[i][2] < heads[j][2]
           /\ \A i \in DOMAIN heads :
                 heads[i][1] = "failed" =>
                   /\ i < Len(heads)
                   /\ heads[i + 1][1] = "sync"
                   /\ heads[i + 1][2] = heads[i][2]
                   /\ heads[i][2] <= last =>
                        /\ heads[i + 1][3]
                        /\ \A j \in DOMAIN heads :
                               (j > i + 1 /\ heads[j][1] = "parse") =>
                                   heads[j][2] > heads[i][2]
           /\ ~lastOp.parsed.panic =>
                 /\ heads # <<>>
                 /\ heads[Len(heads)] = <<"parse", heads[Len(heads)][2], FALSE>>
                 /\ \A i \in DOMAIN heads : heads[i][2] <= last + 1

C30_Witness ==
    /\ Parsed
    /\ source = <<")", "a", "a", ";", ")", ";">>
    /\ lastOp.parsed.failed = 2
    /\ lastOp.parsed.heads =
         <<  <<"parse", 1, TRUE>>, <<"failed", 1, FALSE>>, <<"sync", 1, TRUE>>,
             <<"sync", 2, TRUE>>, <<"sync", 3, TRUE>>, <<"sync", 4, TRUE>>,
             <<"parse", 5, TRUE>>, <<"failed", 5, FALSE>>, <<"sync", 5, TRUE>>,
             <<"sync", 6, TRUE>>, <<"parse", 7, FALSE>> >>

\* the text of some lines, each with its line end
RECURSIVE Joined(_)
Joined(lines) ==
    IF lines = <<>> THEN <<>>
    ELSE Head(lines) \o <<"\n">> \o Joined(Tail(lines))

\* C23: each interpret pass of the REPL receives exactly the lines entered
\* since the previous submission, ended by the line that triggered the
\* submission, and the REPL exits exactly when those lines are a bare q or
\* quit; a line that does not end a submission neither submits nor exits.
C23_ReplBuffer ==
    /\ entered.closed =>
         IF trim(Joined(entered.group)) \in Quits
         THEN status = "exited"
         ELSE /\ status # "exited"
              /\ lastOp.op = "interpret"
              /\ lastOp.at = entered.count
              /\ lastOp.text = trim(Joined(entered.group))
    /\ ~entered.closed =>
         /\ status # "exited"
         /\ lastOp.op = "interpret" => lastOp.at < entered.count

\* C22: the REPL's environment persists and is not corrupted.  A submission
\* starts on the environments the previous one left; a submission with a
\* lexer or parser diagnostic leaves them as they were and evaluates
\* nothing; in a submission that is evaluated every statement is evaluated
\* in turn, whether or not an earlier one raised a diagnostic.
C22_EnvironmentPersists ==
    /\ []((prog = "repl" /\ Gated) =>
             (heap = lastOp.pre /\ pending = <<>> /\ out = <<>> /\ diags = <<>>))
    /\ [][(passes' = passes + 1) => (heap' = heap /\ lastOp'.pre = heap)]_vars
    /\ [][(pending # <<>> /\ status' = "ready") =>
             (pending' = Tail(pending) /\ lastOp' = lastOp)]_vars

\* the second submission failed in the parser: the g defined by the first
\* submission is still there and the environments are those it left
C22_Witness ==
    /\ prog = "repl"
    /\ passes = 2
    /\ Gated
    /\ lastOp.parser # <<>>
    /\ "g" \in DOMAIN heap[GlobalEnv].m_scope
    /\ heap = lastOp.pre
    /\ entered.group = <<LineParseError, LineEmpty>>

====
